---- MODULE Spec2Model ----
(***************************************************************************)
(* Model of the Telegram DEX bot: the pattern scheduler (SessionRunner),   *)
(* the command handlers that drive it, the persistence layer it shares     *)
(* with them, and the numeric core of the swap executor.                   *)
(*                                                                         *)
(* Granularity: every database call and every chain call is one atomic     *)
(* step.  Worker threads (threading.Thread) interleave freely with each    *)
(* other and with the command layer; the command layer is one asyncio      *)
(* event loop, so at most one handler is in progress at a time.            *)
(***************************************************************************)
EXTENDS Integers, Sequences, FiniteSets, TLC

VARIABLES
    authorized,       \* config.ALLOWED_TELEGRAM_IDS
    db_config,        \* table session_configs: user -> SessionConfig (partial)
    db_state,         \* table session_states:  user -> SessionState  (partial)
    db_trades,        \* table trade_records, in insertion order
    threads,          \* worker threads: id -> frame of _run_session_loop
    active_sessions,  \* SessionRunner.active_sessions: user -> thread id (partial)
    session_locks,    \* SessionRunner.session_locks: user -> holder (0 = free) (partial)
    cmd,              \* the handler the event loop is executing, or idle
    ret,              \* user -> what start_session / stop_session returned last
    conv,             \* users inside the /config conversation
    txseq,            \* number of swap transactions handed to the node so far
    call              \* a call of a pure function: its arguments and its result

vars == <<authorized, db_config, db_state, db_trades, threads, active_sessions,
          session_locks, cmd, ret, conv, txseq, call>>

----------------------------------------------------------------------------
(* Bounds of the model *)

\* number of worker threads that are ever launched
MaxThreads == 2

\* config.MAX_TRADES_PER_SESSION (environment variable, default 1000)
MAX_TRADES_PER_SESSION == 4

Users == {1, 2}
ThreadIds == 1..MaxThreads

\* values the /config conversation can store (total_liquidity); trade_pct below
Liquidities == {100, 1000}
TradePcts == {2}

\* what the chain can answer
QuoteBalances == {0, 1000}
BaseBalances == {0, 100}
Prices == {0, 2}
\* what a confirmed swap returns: a BUY spends quote for base, a SELL base for quote
SwapResults(side) ==
    IF side = "BUY" THEN {[amount_in |-> 20, amount_out |-> 9]}
                    ELSE {[amount_in |-> 10, amount_out |-> 19]}

----------------------------------------------------------------------------
(* models.py *)

\* Optional[float] None of SessionConfig.max_position
NoMaxPosition == -1

\* SessionConfig as config_interval builds it: the three answers plus defaults
SessionConfig(u, liq, pct) ==
    [user_id |-> u, total_liquidity |-> liq, trade_pct |-> pct,
     interval_seconds |-> 60, slippage_bps |-> 50, min_notional |-> 10,
     max_position |-> NoMaxPosition]

\* SessionConfig.get_trade_amount
get_trade_amount(cfg) == (cfg.total_liquidity * cfg.trade_pct) \div 100

\* SessionState(user_id=u): the dataclass defaults; None is 0 for the
\* timestamps and "None" for last_error
SessionState(u) ==
    [user_id |-> u, active |-> FALSE, trades_executed |-> 0, spent_notional |-> 0,
     received_quote |-> 0, base_position_delta |-> 0, pattern_index |-> 0,
     started_at |-> 0, stopped_at |-> 0, last_error |-> "None"]

\* datetime.utcnow() when the field it is stored in holds prev: a time that differs
\* from the one stored (0 is None; two values suffice to tell a new stamp)
utcnow(prev) == IF prev = 1 THEN 2 ELSE 1

\* the difference taken the other way round
net_quote_reversed(st) == st.spent_notional - st.received_quote

\* SessionState.get_net_quote
get_net_quote(st) == st.received_quote - st.spent_notional

Pattern == <<"BUY", "BUY", "SELL", "SELL">>

\* a pattern that alternates BUY and SELL
side_alternating(st) == IF st.pattern_index % 2 = 0 THEN "BUY" ELSE "SELL"

\* SessionState.get_current_side
get_current_side(st) == Pattern[(st.pattern_index % 4) + 1]

\* SessionState.advance_pattern
advance_pattern(st) == [st EXCEPT !.pattern_index = @ + 1]

\* a reset that zeroes the counters and leaves the error and the timestamps
reset_counters(st) ==
    [st EXCEPT !.active = FALSE, !.trades_executed = 0, !.spent_notional = 0,
               !.received_quote = 0, !.base_position_delta = 0, !.pattern_index = 0]

\* SessionState.reset
reset(st) ==
    [st EXCEPT !.active = FALSE, !.trades_executed = 0, !.spent_notional = 0,
               !.received_quote = 0, !.base_position_delta = 0, !.pattern_index = 0,
               !.started_at = 0, !.stopped_at = 0, !.last_error = "None"]

----------------------------------------------------------------------------
(* db.py *)

\* Database.get_session_config: None when there is no row
has_session_config(u) == u \in DOMAIN db_config

\* Database.get_session_state: a fresh default when there is no row
get_session_state(u) == IF u \in DOMAIN db_state THEN db_state[u] ELSE SessionState(u)

\* Database.save_session_state: update the row or create it
save_session_state(st) == db_state' = (st.user_id :> st) @@ db_state

\* Database.save_session_config
save_session_config(cfg) == db_config' = (cfg.user_id :> cfg) @@ db_config

\* Database.save_trade_record
save_trade_record(tr) == db_trades' = Append(db_trades, tr)

----------------------------------------------------------------------------
(* session_runner.py: module constants and frames *)

\* TRADING_PATTERN
TRADING_PATTERN == <<"BUY", "BUY", "SELL", "SELL">>

\* the side the loop computes: TRADING_PATTERN[current_state.pattern_index % 4]
loop_side(st) == TRADING_PATTERN[(st.pattern_index % 4) + 1]

NoResult == [amount_in |-> 0, amount_out |-> 0]

\* a thread that was never created
NoThread ==
    [user |-> 0, pc |-> "none", cfg |-> SessionConfig(0, 0, 0), cur |-> SessionState(0),
     tmp |-> SessionState(0), side |-> "None", err |-> "None", sent |-> 0, tx |-> 0,
     result |-> NoResult]

\* Thread.is_alive(): started and not yet finished
is_alive(t) == threads[t].pc \notin {"none", "dead"}

Idle == [op |-> "idle", user |-> 0, pc |-> "idle", st |-> SessionState(0), tid |-> 0]

\* a thread id not used yet (the model launches at most MaxThreads threads)
FreeThreads == {t \in ThreadIds : threads[t].pc = "none"}

\* SessionRunner.is_session_active, lines 136-139
is_session_active(u) == get_session_state(u).active

\* start_session / stop_session of user u returns r
Finish(u, r) ==
    /\ cmd' = Idle
    /\ ret' = [ret EXCEPT ![u] = r]

\* the event loop is free and may dispatch a request of user u
\* (check_authorization: requests of other users are dropped)
Dispatch(u) ==
    /\ cmd.op = "idle"
    /\ u \in authorized

\* the handler in progress belongs to user u and stands at pc
At(u, op, pc) ==
    /\ cmd.op = op
    /\ cmd.user = u
    /\ cmd.pc = pc

----------------------------------------------------------------------------
(* main.py: cmd_start, and session_runner.py: start_session *)

\* the handler op of user u starts
Enter(u, op, pc) == cmd' = [Idle EXCEPT !.op = op, !.user = u, !.pc = pc]

\* /start arrives
CmdStart(u) ==
    /\ Dispatch(u)
    /\ FreeThreads # {}
    /\ Enter(u, "cmd_start", "config")
    /\ UNCHANGED <<call, authorized, db_config, db_state, db_trades, threads, active_sessions,
                   session_locks, ret, conv, txseq>>

\* cmd_start, lines 187-194: no configuration, reply and return
CmdStartConfig(u) ==
    /\ At(u, "cmd_start", "config")
    /\ IF ~has_session_config(u)
          THEN cmd' = Idle
          ELSE cmd' = [cmd EXCEPT !.pc = "is_active"]
    /\ ret' = ret
    /\ UNCHANGED <<call, authorized, db_config, db_state, db_trades, threads, active_sessions,
                   session_locks, conv, txseq>>

\* cmd_start, lines 196-202: is_session_active reads the persisted flag
CmdStartIsActive(u) ==
    /\ At(u, "cmd_start", "is_active")
    /\ IF is_session_active(u)
          THEN cmd' = Idle /\ ret' = ret
          ELSE /\ Enter(u, "start_session", "check")
               /\ ret' = ret
    /\ UNCHANGED <<call, authorized, db_config, db_state, db_trades, threads, active_sessions,
                   session_locks, conv, txseq>>

\* a check that never finds a running thread
never_running(u) == FALSE

\* start_session, line 76: a registered thread that is alive
already_running(u) ==
    /\ u \in DOMAIN active_sessions
    /\ is_alive(active_sessions[u])

\* a start that refuses a running session only
refused_if_running(u) == already_running(u)

\* start_session, lines 75-84: the two refusals
start_refused(u) == already_running(u) \/ ~has_session_config(u)

\* start_session is called without cmd_start
StartSession(u) ==
    /\ Dispatch(u)
    /\ FreeThreads # {}
    /\ Enter(u, "start_session", "check")
    /\ UNCHANGED <<call, authorized, db_config, db_state, db_trades, threads, active_sessions,
                   session_locks, ret, conv, txseq>>

\* start_session, lines 75-84
StartSessionCheck(u) ==
    /\ At(u, "start_session", "check")
    /\ IF start_refused(u)
          THEN Finish(u, "start_false")
          ELSE /\ cmd' = [cmd EXCEPT !.pc = "load"]
               /\ ret' = ret
    /\ UNCHANGED <<call, authorized, db_config, db_state, db_trades, threads, active_sessions,
                   session_locks, conv, txseq>>

\* a start that takes every prior state for a stopped one
always_stopped(st) == TRUE

\* start_session, line 90: the prior session was stopped
was_stopped(st) == ~st.active

\* start_session, lines 86-94: load the state, reset it if it was inactive
StartSessionLoad(u) ==
    /\ At(u, "start_session", "load")
    /\ LET st0 == get_session_state(u)
           st1 == IF was_stopped(st0) THEN reset(st0) ELSE st0
       IN  cmd' = [cmd EXCEPT !.pc = "save",
                              !.st = [st1 EXCEPT !.active = TRUE, !.started_at = utcnow(@)]]
    /\ UNCHANGED <<call, authorized, db_config, db_state, db_trades, threads, active_sessions,
                   session_locks, ret, conv, txseq>>

\* start_session, lines 95-107: persist, create the lock, start the thread
StartSessionLaunch(u) ==
    /\ At(u, "start_session", "save")
    /\ save_session_state(cmd.st)
    /\ session_locks' = IF u \in DOMAIN session_locks THEN session_locks
                                                       ELSE (u :> 0) @@ session_locks
    /\ LET t == CHOOSE x \in FreeThreads : \A y \in FreeThreads : x <= y
       IN  /\ threads' = [threads EXCEPT ![t] = [NoThread EXCEPT !.user = u, !.pc = "top",
                                                               !.cfg = db_config[u]]]
           /\ cmd' = [cmd EXCEPT !.pc = "register", !.st = SessionState(0), !.tid = t]
    /\ UNCHANGED <<call, authorized, db_config, db_trades, active_sessions, ret, conv, txseq>>

\* start_session, lines 108-111: register the thread and return True
StartSessionRegister(u) ==
    /\ At(u, "start_session", "register")
    /\ active_sessions' = (u :> cmd.tid) @@ active_sessions
    /\ Finish(u, "start_true")
    /\ UNCHANGED <<call, authorized, db_config, db_state, db_trades, threads, session_locks,
                   conv, txseq>>

----------------------------------------------------------------------------
(* session_runner.py: stop_session (cmd_stop calls it and reports) *)

\* a stop that never takes the early return
never_noop(st) == FALSE

\* stop_session, lines 125-127: nothing to stop
stop_is_noop(st) == ~st.active

\* stop_session, lines 129-130: the copy is marked stopped
stop_marks(st) == [st EXCEPT !.active = FALSE, !.stopped_at = utcnow(@)]

\* /stop arrives: cmd_stop calls stop_session
StopSession(u) ==
    /\ Dispatch(u)
    /\ Enter(u, "stop_session", "read")
    /\ UNCHANGED <<call, authorized, db_config, db_state, db_trades, threads, active_sessions,
                   session_locks, ret, conv, txseq>>

\* stop_session, lines 123-130: read; not active returns False
StopSessionRead(u) ==
    /\ At(u, "stop_session", "read")
    /\ LET st == get_session_state(u)
       IN  IF stop_is_noop(st)
             THEN Finish(u, "stop_false")
             ELSE /\ cmd' = [cmd EXCEPT !.pc = "save", !.st = stop_marks(st)]
                  /\ ret' = ret
    /\ UNCHANGED <<call, authorized, db_config, db_state, db_trades, threads, active_sessions,
                   session_locks, conv, txseq>>

\* stop_session, lines 131-134: write the copy back and return True
StopSessionSave(u) ==
    /\ At(u, "stop_session", "save")
    /\ save_session_state(cmd.st)
    /\ Finish(u, "stop_true")
    /\ UNCHANGED <<call, authorized, db_config, db_trades, threads, active_sessions,
                   session_locks, conv, txseq>>

----------------------------------------------------------------------------
(* main.py: cmd_reset *)

\* /reset arrives
CmdReset(u) ==
    /\ Dispatch(u)
    /\ Enter(u, "cmd_reset", "check")
    /\ UNCHANGED <<call, authorized, db_config, db_state, db_trades, threads, active_sessions,
                   session_locks, ret, conv, txseq>>

\* cmd_reset, lines 616-622: rejected while the persisted flag is set
CmdResetCheck(u) ==
    /\ At(u, "cmd_reset", "check")
    /\ IF is_session_active(u)
          THEN cmd' = Idle
          ELSE cmd' = [cmd EXCEPT !.pc = "load"]
    /\ ret' = ret
    /\ UNCHANGED <<call, authorized, db_config, db_state, db_trades, threads, active_sessions,
                   session_locks, conv, txseq>>

\* cmd_reset, lines 625-626: read the state again and reset the copy
CmdResetLoad(u) ==
    /\ At(u, "cmd_reset", "load")
    /\ cmd' = [cmd EXCEPT !.pc = "save", !.st = reset(get_session_state(u))]
    /\ UNCHANGED <<call, authorized, db_config, db_state, db_trades, threads, active_sessions,
                   session_locks, ret, conv, txseq>>

\* cmd_reset, lines 627-633: write the copy back
CmdResetSave(u) ==
    /\ At(u, "cmd_reset", "save")
    /\ save_session_state(cmd.st)
    /\ cmd' = Idle
    /\ ret' = ret
    /\ UNCHANGED <<call, authorized, db_config, db_trades, threads, active_sessions,
                   session_locks, conv, txseq>>

----------------------------------------------------------------------------
(* main.py: the /config conversation *)

\* cmd_config_start: refused while the persisted flag is set
CmdConfigStart(u) ==
    /\ Dispatch(u)
    /\ u \notin conv
    /\ IF is_session_active(u)
          THEN conv' = conv
          ELSE conv' = conv \cup {u}
    /\ UNCHANGED <<cmd, ret>>
    /\ UNCHANGED <<call, authorized, db_config, db_state, db_trades, threads, active_sessions,
                   session_locks, txseq>>

\* config_interval: the last answer arrives, the configuration is stored
ConfigInterval(u) ==
    /\ Dispatch(u)
    /\ u \in conv
    /\ \E liq \in Liquidities, pct \in TradePcts :
           save_session_config(SessionConfig(u, liq, pct))
    /\ conv' = conv \ {u}
    /\ UNCHANGED <<cmd, ret>>
    /\ UNCHANGED <<call, authorized, db_state, db_trades, threads, active_sessions,
                   session_locks, txseq>>

\* config_cancel
ConfigCancel(u) ==
    /\ Dispatch(u)
    /\ u \in conv
    /\ conv' = conv \ {u}
    /\ UNCHANGED <<call, authorized, db_config, db_state, db_trades, threads, active_sessions,
                   session_locks, cmd, ret, txseq>>

----------------------------------------------------------------------------
(* session_runner.py: _run_session_loop, one action per database or chain call *)

U(t) == threads[t].user

\* the frame of thread t becomes f
Frame(t, f) == threads' = [threads EXCEPT ![t] = f]

\* the with-block is left: the lock of the thread's user is free again
Release(t) == session_locks' = [session_locks EXCEPT ![U(t)] = 0]

\* a limit that lets two more trades through
two_more_trades(st) == st.trades_executed >= MAX_TRADES_PER_SESSION + 2

\* a limit that is checked one trade too late
max_trades_exceeded(st) == st.trades_executed > MAX_TRADES_PER_SESSION

\* line 167: the session has made its trades
max_trades_reached(st) == st.trades_executed >= MAX_TRADES_PER_SESSION

\* a loop that never finds the trade too small
never_below_minimum(cfg) == FALSE

\* line 179: the configured trade notional is below the configured minimum
below_minimum(cfg) == get_trade_amount(cfg) < cfg.min_notional

\* lines 158-187: take the lock, re-read the state, the checks before any chain call
LoopTop(t) ==
    /\ threads[t].pc = "top"
    /\ session_locks[U(t)] = 0
    /\ LET f  == threads[t]
           cs == get_session_state(f.user)
       IN  IF ~cs.active
             THEN /\ Frame(t, [f EXCEPT !.pc = "finally"])
                  /\ UNCHANGED session_locks
             ELSE /\ session_locks' = [session_locks EXCEPT ![f.user] = t]
                  /\ IF max_trades_reached(cs)
                        THEN Frame(t, [f EXCEPT !.pc = "sm_read"])
                        ELSE IF below_minimum(f.cfg)
                               THEN Frame(t, [f EXCEPT !.pc = "sm_read"])
                               ELSE Frame(t, [f EXCEPT !.pc = "balances", !.cur = cs,
                                                       !.side = loop_side(cs)])
    /\ UNCHANGED <<call, authorized, db_config, db_state, db_trades, active_sessions, cmd, ret,
                   conv, txseq>>

\* lines 189-195: get_balances raises
BalancesFail(t) ==
    /\ threads[t].pc = "balances"
    /\ Frame(t, [threads[t] EXCEPT !.pc = "se_read", !.err = "Failed to get balances",
                                   !.cur = SessionState(0), !.side = "None"])
    /\ UNCHANGED <<call, authorized, db_config, db_state, db_trades, active_sessions,
                   session_locks, cmd, ret, conv, txseq>>

\* lines 199-223: BUY with balances (q, b): insufficient quote, position cap, or trade
buy_checks(f, q, b) ==
    IF q < get_trade_amount(f.cfg)
      THEN [f EXCEPT !.pc = "sm_read", !.cur = SessionState(0), !.side = "None"]
      ELSE IF f.cfg.max_position # NoMaxPosition /\ b >= f.cfg.max_position
             THEN [f EXCEPT !.pc = "skip_save", !.cur = advance_pattern(f.cur)]
             ELSE [f EXCEPT !.pc = "swap"]

\* lines 235-251: SELL with base balance b and price p (0 makes the division raise)
sell_checks(f, b, p) ==
    IF p = 0
      THEN [f EXCEPT !.pc = "se_read", !.err = "Trade failed", !.cur = SessionState(0),
                     !.side = "None"]
      ELSE IF b * p < get_trade_amount(f.cfg)
             THEN [f EXCEPT !.pc = "sm_read", !.cur = SessionState(0), !.side = "None"]
             ELSE [f EXCEPT !.pc = "swap"]

\* lines 189-251: get_balances answers (and get_price on a SELL)
BalancesOk(t) ==
    /\ threads[t].pc = "balances"
    /\ \E q \in QuoteBalances, b \in BaseBalances, p \in Prices :
          Frame(t, IF threads[t].side = "BUY" THEN buy_checks(threads[t], q, b)
                                             ELSE sell_checks(threads[t], b, p))
    /\ UNCHANGED <<call, authorized, db_config, db_state, db_trades, active_sessions,
                   session_locks, cmd, ret, conv, txseq>>

\* lines 237, 301-304: get_price raises on a SELL
PriceFail(t) ==
    /\ threads[t].pc = "balances"
    /\ threads[t].side = "SELL"
    /\ Frame(t, [threads[t] EXCEPT !.pc = "se_read", !.err = "Trade failed",
                                   !.cur = SessionState(0), !.side = "None"])
    /\ UNCHANGED <<call, authorized, db_config, db_state, db_trades, active_sessions,
                   session_locks, cmd, ret, conv, txseq>>

\* lines 220-223: the skipped BUY is persisted; the sleep follows inside the with-block
SkipSave(t) ==
    /\ threads[t].pc = "skip_save"
    /\ save_session_state(threads[t].cur)
    /\ Frame(t, [threads[t] EXCEPT !.pc = "skip_sleep", !.cur = SessionState(0),
                                   !.side = "None"])
    /\ UNCHANGED <<call, authorized, db_config, db_trades, active_sessions, session_locks, cmd,
                   ret, conv, txseq>>

\* lines 222-223: time.sleep returns, continue leaves the with-block
SkipSleep(t) ==
    /\ threads[t].pc = "skip_sleep"
    /\ Frame(t, [threads[t] EXCEPT !.pc = "top"])
    /\ Release(t)
    /\ UNCHANGED <<call, authorized, db_config, db_state, db_trades, active_sessions, cmd, ret,
                   conv, txseq>>

----------------------------------------------------------------------------
(* dex_client.py: swap_exact_quote_for_base / swap_exact_base_for_quote, as the  *)
(* loop calls them (lines 226 and 254 of session_runner.py)                    *)

\* the except clause of the loop, lines 301-304: the trade failed
trade_failed(f) ==
    [f EXCEPT !.pc = "se_read", !.err = "Trade failed", !.cur = SessionState(0),
              !.side = "None", !.tx = 0]

\* dex_client.py lines 395-437 / 507-552: allowance, quote, build and sign succeed
SwapPrepare(t) ==
    /\ threads[t].pc = "swap"
    /\ Frame(t, [threads[t] EXCEPT !.pc = "swap_send", !.sent = 0])
    /\ UNCHANGED <<call, authorized, db_config, db_state, db_trades, active_sessions,
                   session_locks, cmd, ret, conv, txseq>>

\* ... or one of them raises (read calls after their retries, a reverted approval)
SwapPrepareFail(t) ==
    /\ threads[t].pc = "swap"
    /\ Frame(t, trade_failed(threads[t]))
    /\ UNCHANGED <<call, authorized, db_config, db_state, db_trades, active_sessions,
                   session_locks, cmd, ret, conv, txseq>>

\* dex_client.py lines 438 / 553: send_raw_transaction returns the hash
SwapSend(t) ==
    /\ threads[t].pc = "swap_send"
    /\ txseq' = txseq + 1
    /\ Frame(t, [threads[t] EXCEPT !.pc = "swap_wait", !.tx = txseq + 1, !.sent = @ + 1])
    /\ UNCHANGED <<call, authorized, db_config, db_state, db_trades, active_sessions,
                   session_locks, cmd, ret, conv>>

\* a submission that is tried again when it raises
send_retried(f) == [f EXCEPT !.pc = "swap_send"]

\* send_raw_transaction raised: the exception leaves the swap operation
send_raised(f) == trade_failed(f)

\* dex_client.py lines 438 / 553: send_raw_transaction raises; the node may or may
\* not have taken the transaction
SwapSendFail(t) ==
    /\ threads[t].pc = "swap_send"
    /\ \E taken \in BOOLEAN : txseq' = IF taken THEN txseq + 1 ELSE txseq
    /\ Frame(t, send_raised([threads[t] EXCEPT !.sent = @ + 1]))
    /\ UNCHANGED <<call, authorized, db_config, db_state, db_trades, active_sessions,
                   session_locks, cmd, ret, conv>>

\* session_runner.py lines 231-233 / 259-261: the accumulators take the result
apply_result(st, side, r) ==
    IF side = "BUY"
      THEN [st EXCEPT !.spent_notional = @ + r.amount_in,
                      !.base_position_delta = @ + r.amount_out]
      ELSE [st EXCEPT !.received_quote = @ + r.amount_out,
                      !.base_position_delta = @ - r.amount_in]

\* dex_client.py lines 443-488 / 558-603: the receipt has status 1, the amounts are
\* reconciled and returned; session_runner.py lines 231-233 / 259-261
SwapConfirmed(t) ==
    /\ threads[t].pc = "swap_wait"
    /\ \E r \in SwapResults(threads[t].side) :
          Frame(t, [threads[t] EXCEPT !.pc = "save_trade", !.result = r,
                                      !.cur = apply_result(@, threads[t].side, r)])
    /\ UNCHANGED <<call, authorized, db_config, db_state, db_trades, active_sessions,
                   session_locks, cmd, ret, conv, txseq>>

\* dex_client.py lines 443-446 / 558-561: status 0, or the wait times out
SwapWaitFail(t) ==
    /\ threads[t].pc = "swap_wait"
    /\ Frame(t, trade_failed(threads[t]))
    /\ UNCHANGED <<call, authorized, db_config, db_state, db_trades, active_sessions,
                   session_locks, cmd, ret, conv, txseq>>

----------------------------------------------------------------------------
(* session_runner.py lines 263-308: record, persist, sleep *)

\* TradeRecord as the loop builds it (lines 270-279)
TradeRecord(f) ==
    [user_id |-> f.user, side |-> f.side, amount_in |-> f.result.amount_in,
     amount_out |-> f.result.amount_out, tx_hash |-> f.tx]

\* lines 270-281: save_trade_record
SaveTrade(t) ==
    /\ threads[t].pc = "save_trade"
    /\ save_trade_record(TradeRecord(threads[t]))
    /\ Frame(t, [threads[t] EXCEPT !.pc = "save_state", !.result = NoResult, !.tx = 0,
                                   !.sent = 0])
    /\ UNCHANGED <<call, authorized, db_config, db_state, active_sessions, session_locks, cmd,
                   ret, conv, txseq>>

\* a trade that is counted without advancing the pattern
counted_only(st) ==
    [st EXCEPT !.trades_executed = @ + 1, !.last_error = "None"]

\* lines 284-286: the copy read at the top of the iteration, after the trade
after_trade(st) ==
    [advance_pattern([st EXCEPT !.trades_executed = @ + 1]) EXCEPT !.last_error = "None"]

\* lines 283-299: persist the copy, notify, leave the with-block
SaveState(t) ==
    /\ threads[t].pc = "save_state"
    /\ save_session_state(after_trade(threads[t].cur))
    /\ Frame(t, [threads[t] EXCEPT !.pc = "sleep", !.cur = SessionState(0),
                                   !.side = "None"])
    /\ Release(t)
    /\ UNCHANGED <<call, authorized, db_config, db_trades, active_sessions, cmd, ret, conv,
                   txseq>>

\* lines 306-308: time.sleep returns
Sleep(t) ==
    /\ threads[t].pc = "sleep"
    /\ Frame(t, [threads[t] EXCEPT !.pc = "top"])
    /\ UNCHANGED <<call, authorized, db_config, db_state, db_trades, active_sessions,
                   session_locks, cmd, ret, conv, txseq>>

----------------------------------------------------------------------------
(* session_runner.py: _stop_with_message, _stop_with_error, the finally clause *)

\* _stop_with_message, lines 322-324: read the state, clear the flag on the copy
StopWithMessageRead(t) ==
    /\ threads[t].pc = "sm_read"
    /\ Frame(t, [threads[t] EXCEPT !.pc = "sm_save",
                     !.tmp = [get_session_state(U(t)) EXCEPT !.active = FALSE,
                                                             !.stopped_at = utcnow(@)]])
    /\ UNCHANGED <<call, authorized, db_config, db_state, db_trades, active_sessions,
                   session_locks, cmd, ret, conv, txseq>>

\* _stop_with_message, lines 325-327, and the break out of the with-block
StopWithMessageSave(t) ==
    /\ threads[t].pc = "sm_save"
    /\ save_session_state(threads[t].tmp)
    /\ Frame(t, [threads[t] EXCEPT !.pc = "finally", !.tmp = SessionState(0)])
    /\ Release(t)
    /\ UNCHANGED <<call, authorized, db_config, db_trades, active_sessions, cmd, ret, conv,
                   txseq>>

\* _stop_with_error, lines 331-334: read the state, clear the flag, set last_error
StopWithErrorRead(t) ==
    /\ threads[t].pc = "se_read"
    /\ Frame(t, [threads[t] EXCEPT !.pc = "se_save",
                     !.tmp = [get_session_state(U(t)) EXCEPT !.active = FALSE,
                                                             !.stopped_at = utcnow(@),
                                                             !.last_error = threads[t].err],
                     !.sent = 0])
    /\ UNCHANGED <<call, authorized, db_config, db_state, db_trades, active_sessions,
                   session_locks, cmd, ret, conv, txseq>>

\* _stop_with_error, lines 335-342, and the break out of the with-block
StopWithErrorSave(t) ==
    /\ threads[t].pc = "se_save"
    /\ save_session_state(threads[t].tmp)
    /\ Frame(t, [threads[t] EXCEPT !.pc = "finally", !.tmp = SessionState(0),
                                   !.err = "None"])
    /\ Release(t)
    /\ UNCHANGED <<call, authorized, db_config, db_trades, active_sessions, cmd, ret, conv,
                   txseq>>

\* a cleanup that empties the registry
del_all_sessions(u) == <<>>

\* lines 316-317: del self.active_sessions[user_id], if the entry exists
del_session(u) == [v \in DOMAIN active_sessions \ {u} |-> active_sessions[v]]

\* lines 314-318: the registry entry of the user is deleted, whichever thread it
\* names, and _run_session_loop returns: the thread ends (only a log line lies between)
Finally(t) ==
    /\ threads[t].pc = "finally"
    /\ active_sessions' = del_session(U(t))
    /\ Frame(t, [NoThread EXCEPT !.pc = "dead", !.user = U(t)])
    /\ UNCHANGED <<call, authorized, db_config, db_state, db_trades, session_locks, cmd, ret,
                   conv, txseq>>

----------------------------------------------------------------------------
(* The scheduler with its command layer *)

\* the process has been constructed: empty tables, no thread, allowed ids a
InitWith(a) ==
    /\ authorized = a
    /\ db_config = <<>>
    /\ db_state = <<>>
    /\ db_trades = <<>>
    /\ threads = [t \in ThreadIds |-> NoThread]
    /\ active_sessions = <<>>
    /\ session_locks = <<>>
    /\ cmd = Idle
    /\ ret = [u \in Users |-> "none"]
    /\ conv = {}
    /\ txseq = 0

\* no pure function is being called
NoCall == [fn |-> "none"]

Init ==
    /\ InitWith({1})
    /\ call = NoCall

Command ==
    \E u \in Users :
        \/ CmdStart(u)
        \/ CmdStartConfig(u)
        \/ CmdStartIsActive(u)
        \/ StartSession(u)
        \/ StartSessionCheck(u)
        \/ StartSessionLoad(u)
        \/ StartSessionLaunch(u)
        \/ StartSessionRegister(u)
        \/ StopSession(u)
        \/ StopSessionRead(u)
        \/ StopSessionSave(u)
        \/ CmdReset(u)
        \/ CmdResetCheck(u)
        \/ CmdResetLoad(u)
        \/ CmdResetSave(u)
        \/ CmdConfigStart(u)
        \/ ConfigInterval(u)
        \/ ConfigCancel(u)

Worker ==
    \E t \in ThreadIds :
        \/ LoopTop(t)
        \/ BalancesFail(t)
        \/ BalancesOk(t)
        \/ PriceFail(t)
        \/ SwapPrepare(t)
        \/ SwapPrepareFail(t)
        \/ SwapSend(t)
        \/ SwapSendFail(t)
        \/ SwapConfirmed(t)
        \/ SwapWaitFail(t)
        \/ SaveTrade(t)
        \/ SaveState(t)
        \/ Sleep(t)
        \/ StopWithMessageRead(t)
        \/ StopWithMessageSave(t)
        \/ StopWithErrorRead(t)
        \/ StopWithErrorSave(t)
        \/ Finally(t)

Next == Command \/ Worker

Spec == Init /\ [][Next]_vars

----------------------------------------------------------------------------
(* Vocabulary of the properties *)

\* the threads of user u
ThreadsOf(u) == {t \in ThreadIds : threads[t].pc # "none" /\ threads[t].user = u}

\* thread t is inside an iteration: it has read the state at the loop top (line 161)
\* and has not yet persisted its copy (line 287)
InIteration(t) ==
    threads[t].pc \in {"balances", "swap", "swap_send", "swap_wait", "save_trade",
                       "save_state"}

\* a request of user u has read the persisted state and is about to write it back
\* (stop_session 124-131, cmd_reset 625-627, start_session 87-95)
InReadModifyWrite(u) ==
    /\ cmd.user = u
    /\ cmd.op \in {"stop_session", "cmd_reset", "start_session"}
    /\ cmd.pc = "save"

\* a start_session of user u is in progress
Starting(u) == cmd.user = u /\ cmd.op = "start_session"

----------------------------------------------------------------------------
(* C1 *)

\* C1: once stop_session(u) has returned True, the persisted active flag of u stays
\* false until a new start_session(u): whatever the iteration in flight does, it does
\* not set the flag again (so the worker exits at its next loop-top check).
C1_StopIsHonoured ==
    \A u \in Users :
        (ret[u] = "stop_true" /\ ~Starting(u)) => ~get_session_state(u).active

----------------------------------------------------------------------------
(* C2 *)

\* C2: requests and iterations exclude each other per user: no request of user u
\* stands between its read and its write of the persisted SessionState while an
\* iteration of u's worker stands between its own read and its own write.
C2_MutualExclusion ==
    \A u \in Users : \A t \in ThreadsOf(u) : ~(InReadModifyWrite(u) /\ InIteration(t))

----------------------------------------------------------------------------
(* C3: the side of a pattern index, as a function *)

\* largest pattern_index the side functions are called with
MaxPatternIndex == 63

\* a SessionState whose pattern_index is n
StateAt(n) == [SessionState(1) EXCEPT !.pattern_index = n]

\* the function is called with pattern_index n; no result yet
SideCall(fn, n) == [fn |-> fn, n |-> n, out |-> "pending"]

InitSide ==
    /\ InitWith({})
    /\ call \in {SideCall(fn, n) : fn \in {"get_current_side", "loop"},
                                   n \in 0..MaxPatternIndex}

\* SessionState.get_current_side() returns
CallGetCurrentSide ==
    /\ call.fn = "get_current_side"
    /\ call.out = "pending"
    /\ call' = [call EXCEPT !.out = get_current_side(StateAt(call.n))]
    /\ UNCHANGED <<authorized, db_config, db_state, db_trades, threads, active_sessions,
                   session_locks, cmd, ret, conv, txseq>>

\* the loop evaluates line 176 of session_runner.py
CallLoopSide ==
    /\ call.fn = "loop"
    /\ call.out = "pending"
    /\ call' = [call EXCEPT !.out = loop_side(StateAt(call.n))]
    /\ UNCHANGED <<authorized, db_config, db_state, db_trades, threads, active_sessions,
                   session_locks, cmd, ret, conv, txseq>>

NextSide == CallGetCurrentSide \/ CallLoopSide

SpecSide == InitSide /\ [][NextSide]_vars

\* two BUYs, then two SELLs, then over again: the side by the remainder of n
SideOfRemainder(n) ==
    CASE n % 4 = 0 -> "BUY"
      [] n % 4 = 1 -> "BUY"
      [] n % 4 = 2 -> "SELL"
      [] n % 4 = 3 -> "SELL"

\* C3: for every pattern_index n >= 0 the side chosen by the scheduler loop and by
\* SessionState.get_current_side is [BUY, BUY, SELL, SELL][n mod 4].
C3_SideOfIndex ==
    call.out # "pending" => call.out = SideOfRemainder(call.n)

\* C3 witness: both functions have answered, on an index past the first cycle whose
\* side is SELL
C3_Witness ==
    /\ call.fn = "loop"
    /\ call.n = 7
    /\ call.out = "SELL"

----------------------------------------------------------------------------
(* C4 *)

\* thread t persists an executed trade in this step (line 287)
PersistsTrade(t) == threads[t].pc = "save_state" /\ threads'[t].pc = "sleep"

\* C4: every swap of the model succeeds here and no BUY is skipped; the k-th executed
\* trade has side [BUY, BUY, SELL, SELL][(k-1) mod 4], k being the persisted
\* trades_executed once the trade is saved, and saving the trade raises the persisted
\* trades_executed and pattern_index by exactly 1 each.
C4_TradeAdvancesByOne ==
    [][\A t \in ThreadIds :
          PersistsTrade(t) =>
              LET old == get_session_state(U(t))
                  new == db_state'[U(t)]
              IN  /\ new.trades_executed = old.trades_executed + 1
                  /\ new.pattern_index = old.pattern_index + 1
                  /\ threads[t].side = SideOfRemainder(new.trades_executed - 1)]_vars

----------------------------------------------------------------------------
(* dex_client.py: the slippage bound (lines 411-413 and 525-527).  Amounts reach *)
(* 2^256 - 1, so a natural number is the sequence of its decimal digits, least   *)
(* significant first; <<>> is 0.                                                 *)

\* precision of the decimal context the module computes in (Python's default)
DecimalPrec == 28

\* 2^256 - 1, most significant digit first
UINT256_MAX ==
    <<1, 1, 5, 7, 9, 2, 0, 8, 9, 2, 3, 7, 3, 1, 6, 1, 9, 5, 4, 2, 3, 5, 7, 0, 9, 8, 5, 0,
      0, 8, 6, 8, 7, 9, 0, 7, 8, 5, 3, 2, 6, 9, 9, 8, 4, 6, 6, 5, 6, 4, 0, 5, 6, 4, 0, 3,
      9, 4, 5, 7, 5, 8, 4, 0, 0, 7, 9, 1, 3, 1, 2, 9, 6, 3, 9, 9, 3, 5>>

Reverse(ds) == [i \in 1..Len(ds) |-> ds[Len(ds) + 1 - i]]

RECURSIVE digits_of(_)
\* the digits of the natural number n
digits_of(n) == IF n = 0 THEN <<>> ELSE <<n % 10>> \o digits_of(n \div 10)

RECURSIVE normal(_)
\* without leading zeros
normal(ds) ==
    IF ds = <<>> THEN <<>>
    ELSE IF ds[Len(ds)] = 0 THEN normal(SubSeq(ds, 1, Len(ds) - 1)) ELSE ds

RECURSIVE times(_, _, _)
\* ds * m + carry, m and carry small
times(ds, m, carry) ==
    IF ds = <<>> THEN digits_of(carry)
    ELSE LET v == Head(ds) * m + carry
         IN  <<v % 10>> \o times(Tail(ds), m, v \div 10)

RECURSIVE succ(_)
\* ds + 1
succ(ds) ==
    IF ds = <<>> THEN <<1>>
    ELSE IF Head(ds) = 9 THEN <<0>> \o succ(Tail(ds))
         ELSE <<Head(ds) + 1>> \o Tail(ds)

\* floor(ds / 10^k)
shift_right(ds, k) == IF k >= Len(ds) THEN <<>> ELSE SubSeq(ds, k + 1, Len(ds))

\* ds * 10^k
shift_left(ds, k) == IF ds = <<>> THEN <<>> ELSE [i \in 1..k |-> 0] \o ds

\* Decimal(10000 - slippage_bps) / Decimal(10000): the quotient has at most five
\* significant digits, so the division is exact: an integer coefficient and the
\* exponent -4 (Python drops the trailing zeros, the value is the same)
slippage_multiplier(slippage_bps) == [coeff |-> 10000 - slippage_bps, exp |-> -4]

\* the context rounds a coefficient c of more than DecimalPrec digits to DecimalPrec
\* digits, ROUND_HALF_EVEN, and raises the exponent by the number of digits dropped
decimal_round(c, exp) ==
    IF Len(c) <= DecimalPrec THEN [coeff |-> c, exp |-> exp]
    ELSE LET k    == Len(c) - DecimalPrec
             kept == shift_right(c, k)
             up   == \/ c[k] > 5
                     \/ /\ c[k] = 5
                        /\ \/ \E i \in 1..(k - 1) : c[i] # 0
                           \/ kept[1] % 2 = 1
         IN  [coeff |-> IF up THEN succ(kept) ELSE kept, exp |-> exp + k]

\* Decimal(a) * d for the integer a: Decimal(a) is exact, the product is rounded
decimal_mul(a, d) == decimal_round(normal(times(a, d.coeff, 0)), d.exp)

\* int(d): truncation toward zero of a non-negative decimal
int_of(d) == IF d.exp >= 0 THEN shift_left(d.coeff, d.exp) ELSE shift_right(d.coeff, -d.exp)

\* lines 412-413 / 526-527:
\* amount_out_min = int(Decimal(expected_out) * slippage_multiplier)
amount_out_min(expected_out, slippage_bps) ==
    int_of(decimal_mul(expected_out, slippage_multiplier(slippage_bps)))

----------------------------------------------------------------------------
(* C5: the slippage bound as a function of the quote and the tolerance *)

\* the quotes 10^k and 10^k + 1 are tried for k up to MaxExponent
MaxExponent == 30

\* 10^k + j for a digit j and k >= 1
PowerOfTenPlus(k, j) == [i \in 1..(k + 1) |-> IF i = 1 THEN j ELSE IF i = k + 1 THEN 1 ELSE 0]

\* what getAmountsOut can answer
ExpectedOuts ==
    {digits_of(n) : n \in {0, 1, 999, 1000, 12345}}
        \cup {PowerOfTenPlus(k, j) : k \in 1..MaxExponent, j \in {0, 1}}
        \cup {Reverse(UINT256_MAX)}

\* tolerances, in basis points
SlippageBps == {0, 1, 50, 9999, 10000}

SlippageCall(fn, e, bps) ==
    [fn |-> fn, expected_out |-> e, slippage_bps |-> bps, done |-> FALSE, out |-> <<>>]

InitSlippage ==
    /\ InitWith({})
    /\ call \in {SlippageCall(fn, e, bps) :
                    fn \in {"swap_exact_quote_for_base", "swap_exact_base_for_quote"},
                    e \in ExpectedOuts, bps \in SlippageBps}

\* swap_exact_quote_for_base computes the bound (lines 411-413)
CallBuyMinOut ==
    /\ call.fn = "swap_exact_quote_for_base"
    /\ ~call.done
    /\ call' = [call EXCEPT !.done = TRUE,
                            !.out = amount_out_min(call.expected_out, call.slippage_bps)]
    /\ UNCHANGED <<authorized, db_config, db_state, db_trades, threads, active_sessions,
                   session_locks, cmd, ret, conv, txseq>>

\* swap_exact_base_for_quote computes the bound (lines 525-527)
CallSellMinOut ==
    /\ call.fn = "swap_exact_base_for_quote"
    /\ ~call.done
    /\ call' = [call EXCEPT !.done = TRUE,
                            !.out = amount_out_min(call.expected_out, call.slippage_bps)]
    /\ UNCHANGED <<authorized, db_config, db_state, db_trades, threads, active_sessions,
                   session_locks, cmd, ret, conv, txseq>>

NextSlippage == CallBuyMinOut \/ CallSellMinOut

SpecSlippage == InitSlippage /\ [][NextSlippage]_vars

\* floor(e * (10000 - bps) / 10000) in exact integer arithmetic
ExactFloor(e, bps) == shift_right(normal(times(e, 10000 - bps, 0)), 4)

\* C5: for every expected_out >= 0 up to the uint256 range and every slippage_bps in
\* 0..10000 both swap operations compute
\* amount_out_min = floor(expected_out * (10000 - slippage_bps) / 10000) exactly.
C5_MinOutIsExactFloor ==
    call.done => call.out = ExactFloor(call.expected_out, call.slippage_bps)

\* the example of C5 holds: expected_out = 1000 and slippage_bps = 50 give 995
C5_Example ==
    (call.done /\ call.expected_out = digits_of(1000) /\ call.slippage_bps = 50)
        => call.out = digits_of(995)

----------------------------------------------------------------------------
(* C6 *)

\* where a thread stands once a trade has failed: it records the error and ends
AfterFailure == {"se_read", "se_save", "finally", "dead"}

\* C6: within one invocation of a swap operation the transaction is submitted at most
\* once (sent counts the send_raw_transaction calls of the invocation), and a thread
\* whose submission or confirmation failed never comes back to a submission: it goes
\* on to _stop_with_error and out of the loop.
C6_SubmittedAtMostOnce ==
    [][\A t \in ThreadIds :
          /\ threads'[t].sent <= 1
          /\ threads[t].pc \in AfterFailure => threads'[t].pc \in AfterFailure]_vars

\* C6 witness: a swap has failed after its one submission and the thread stands at
\* _stop_with_error
C6_Witness ==
    \E t \in ThreadIds :
        /\ threads[t].pc = "se_read"
        /\ threads[t].err = "Trade failed"
        /\ threads[t].sent = 1

----------------------------------------------------------------------------
(* C7 *)

\* the worker loops of user u that are live: the thread runs _run_session_loop
LiveLoops(u) == {t \in ThreadsOf(u) : threads[t].pc # "dead"}

\* a worker loop of user u is live
Live(u) == LiveLoops(u) # {}

\* the request in progress takes a step
CommandStep == cmd' # cmd

\* start_session(u) decides: it goes on exactly if u has a configuration and no live
\* worker, and returns False otherwise
StartDecides(u) ==
    (At(u, "start_session", "check") /\ CommandStep) =>
        /\ (cmd'.pc = "load") <=> (has_session_config(u) /\ ~Live(u))
        /\ (cmd' = Idle /\ ret'[u] = "start_false") <=> ~(has_session_config(u) /\ ~Live(u))

\* ... and having gone on it persists active = true, launches one worker of u and
\* returns True
StartRuns(u) ==
    /\ (At(u, "start_session", "save") /\ CommandStep) =>
           /\ db_state'[u].active
           /\ \E t \in ThreadIds : /\ threads[t].pc = "none"
                                    /\ threads'[t].pc = "top"
                                    /\ threads'[t].user = u
    /\ (At(u, "start_session", "register") /\ CommandStep) => ret'[u] = "start_true"

\* C7: start_session(u) moves u to Running (persists active = true, launches a worker,
\* returns True) if and only if u has a stored configuration and no worker loop of u
\* is live; so at most one worker loop per user is live at any time.
C7_StartIffConfigAndNoWorker ==
    /\ [](\A u \in Users : Cardinality(LiveLoops(u)) <= 1)
    /\ [][\A u \in Users : StartDecides(u) /\ StartRuns(u)]_vars

\* C7 witness: a start was refused for a user who has a configuration, because the
\* worker of the earlier start is still live
C7_Witness ==
    /\ ret[1] = "start_false"
    /\ has_session_config(1)
    /\ Live(1)
    /\ cmd = Idle

----------------------------------------------------------------------------
(* C8 *)

\* C8: a start for a user without a stored configuration fails (cmd_start replies and
\* returns, start_session returns False) and leaves the persisted SessionState, the
\* registry, the locks and the trade log as they are, and launches no worker.
C8_NoConfigNoStart ==
    [][\A u \in Users :
          (/\ cmd.user = u
           /\ cmd.op \in {"cmd_start", "start_session"}
           /\ ~has_session_config(u)
           /\ CommandStep)
          => /\ cmd' = Idle
             /\ ret'[u] = IF cmd.op = "start_session" THEN "start_false" ELSE ret[u]
             /\ UNCHANGED <<db_state, db_config, db_trades, threads, active_sessions,
                            session_locks>>]_vars

\* C8 witness: start_session has returned False for a user who has no configuration
C8_Witness ==
    /\ ~has_session_config(1)
    /\ ret[1] = "start_false"
    /\ cmd = Idle

----------------------------------------------------------------------------
(* C9 *)

\* what one call of stop_session makes of the persisted state st
AfterStop(st) == IF stop_is_noop(st) THEN st ELSE stop_marks(st)

\* C9: stop_session(u) on a persisted state that is not active returns False and
\* writes nothing (stopped_at included); and a second stop_session of the state the
\* first one leaves is that no-op, so two calls leave what one call leaves.
C9_StopTwiceIsStopOnce ==
    /\ [](\A u \in Users :
             LET once == AfterStop(get_session_state(u))
             IN  stop_is_noop(once) /\ AfterStop(once) = once)
    /\ [][\A u \in Users :
             (At(u, "stop_session", "read") /\ ~get_session_state(u).active /\ CommandStep)
             => /\ cmd' = Idle
                /\ ret'[u] = "stop_false"
                /\ UNCHANGED <<db_state, db_config, db_trades, threads, active_sessions,
                               session_locks>>]_vars

\* C9 witness: stop_session has returned False on a state an earlier stop had left
C9_Witness ==
    /\ ret[1] = "stop_false"
    /\ 1 \in DOMAIN db_state
    /\ ~db_state[1].active
    /\ db_state[1].stopped_at # 0
    /\ db_state[1].last_error = "None"

----------------------------------------------------------------------------
(* C10 *)

\* the state a reset leaves: counters 0, not active, no error, no timestamps
IsCleared(st) ==
    /\ st.trades_executed = 0
    /\ st.spent_notional = 0
    /\ st.received_quote = 0
    /\ st.base_position_delta = 0
    /\ st.pattern_index = 0
    /\ st.active = FALSE
    /\ st.last_error = "None"
    /\ st.started_at = 0
    /\ st.stopped_at = 0

\* C10: a reset for a user whose session is active is rejected and changes nothing; a
\* reset for an inactive user goes on and persists trades_executed, spent_notional,
\* received_quote, base_position_delta and pattern_index 0, active false, and
\* last_error, started_at and stopped_at null.
C10_ResetRejectedOrClears ==
    [][\A u \in Users :
          /\ (At(u, "cmd_reset", "check") /\ CommandStep) =>
                 IF get_session_state(u).active
                   THEN /\ cmd' = Idle
                        /\ UNCHANGED <<db_state, db_config, db_trades, threads,
                                       active_sessions, session_locks, ret>>
                   ELSE cmd'.pc = "load"
          /\ (At(u, "cmd_reset", "save") /\ CommandStep) =>
                 /\ cmd' = Idle
                 /\ db_state'[u].user_id = u
                 /\ IsCleared(db_state'[u])]_vars

\* C10 witness: trades were made and stopped, and a reset has cleared the state
C10_Witness ==
    /\ db_trades # <<>>
    /\ 1 \in DOMAIN db_state
    /\ IsCleared(db_state[1])
    /\ cmd = Idle

----------------------------------------------------------------------------
(* C11 *)

\* thread t runs with a configuration whose trade notional is below min_notional
BelowMinimum(t) ==
    /\ is_alive(t)
    /\ get_trade_amount(threads[t].cfg) < threads[t].cfg.min_notional

\* the counters and accumulators of a SessionState
Counters(st) ==
    <<st.trades_executed, st.pattern_index, st.spent_notional, st.received_quote,
      st.base_position_delta>>

\* C11: a worker whose trade notional is below min_notional never queries a balance
\* and never prepares, submits or records a swap; its first loop-top check of an
\* active session goes to stop-with-message, and that stop persists active = FALSE
\* with last_error not set, the counters and accumulators as persisted, and no
\* trade record or transaction added.
C11_BelowMinimumStops ==
    /\ [](\A t \in ThreadIds :
            BelowMinimum(t) =>
                /\ threads[t].pc \in {"top", "sm_read", "sm_save", "finally"}
                /\ threads[t].sent = 0
                /\ threads[t].tx = 0)
    /\ [][\A t \in ThreadIds :
            BelowMinimum(t) =>
                /\ (threads[t].pc = "top" /\ threads'[t].pc # "top"
                        /\ get_session_state(U(t)).active)
                      => threads'[t].pc = "sm_read"
                /\ (threads[t].pc = "sm_save" /\ threads'[t].pc = "finally")
                      => /\ ~db_state'[U(t)].active
                         /\ db_state'[U(t)].last_error = "None"
                         /\ Counters(db_state'[U(t)]) = Counters(get_session_state(U(t)))
                         /\ db_trades' = db_trades
                         /\ txseq' = txseq]_vars

\* a below-minimum worker has stopped its session with a message and is about to end,
\* no stop command having been answered since the start
C11_Witness ==
    \E t \in ThreadIds :
        /\ BelowMinimum(t)
        /\ threads[t].pc = "finally"
        /\ ret[U(t)] = "start_true"
        /\ cmd = Idle
        /\ ~get_session_state(U(t)).active
        /\ get_session_state(U(t)).stopped_at # 0

----------------------------------------------------------------------------
(* dex_client.py: the receipt of a mined swap, _parse_swap_amounts_from_receipt, *)
(* and what the loop does with the returned amounts                           *)

MaxLogs == 2

\* the value field of a Transfer event
TransferValues == {0, 7, 9}

\* a log the parsing loop skips: not three topics, another event signature, or
\* addresses or a value that cannot be decoded (lines 268-326)
SkippedLog ==
    [address |-> "OTHER", from |-> "pair", to |-> "pair", value |-> 0, decodable |-> FALSE]

\* the logs of a receipt: Transfer events of a token contract, or a skipped log
Logs ==
    [address : {"QUOTE", "BASE", "OTHER"}, from : {"wallet", "pair"},
     to : {"wallet", "pair"}, value : TransferValues, decodable : {TRUE}]
        \cup {SkippedLog}

Receipts == UNION {[1..n -> Logs] : n \in 0..MaxLogs}

\* the smallest value of a non-empty collection
smallest(S) == CHOOSE x \in S : \A y \in S : x <= y

\* max() of a non-empty collection of values
Max(S) == CHOOSE x \in S : \A y \in S : y <= x

\* a parse that takes every transfer of the input token, whoever sends it
input_from_anyone(receipt, token_in) ==
    {receipt[i].value : i \in {j \in DOMAIN receipt :
        receipt[j].decodable /\ receipt[j].address = token_in}}

\* lines 331-333: transfers of the input token sent from the wallet
input_transfers(receipt, token_in) ==
    {receipt[i].value : i \in {j \in DOMAIN receipt :
        receipt[j].decodable /\ receipt[j].address = token_in
                             /\ receipt[j].from = "wallet"}}

\* lines 336-338: transfers of the output token received by the wallet
output_transfers(receipt, token_out) ==
    {receipt[i].value : i \in {j \in DOMAIN receipt :
        receipt[j].decodable /\ receipt[j].address = token_out
                             /\ receipt[j].to = "wallet"}}

\* the pair (None, None)
NoAmounts == <<-1, -1>>

\* _parse_swap_amounts_from_receipt, lines 340-376
parse_swap_amounts_from_receipt(receipt, token_in, token_out) ==
    LET ins  == input_transfers(receipt, token_in)
        outs == output_transfers(receipt, token_out)
    IN  IF ins = {} \/ outs = {}
          THEN NoAmounts
          ELSE IF Max(ins) <= 0 \/ Max(outs) <= 0
                 THEN NoAmounts
                 ELSE <<Max(ins), Max(outs)>>

\* float(raw) / (10 ** decimals): an amount in token units, kept as the fraction
human(raw, decimals) == [raw |-> raw, decimals |-> decimals]

\* the token a swap of the given side spends and the one it receives
token_in_of(side) == IF side = "BUY" THEN "QUOTE" ELSE "BASE"
token_out_of(side) == IF side = "BUY" THEN "BASE" ELSE "QUOTE"

\* the decimals of a token (lines 69-70), d = <<quote_decimals, base_decimals>>
decimals_of(token, d) == IF token = "QUOTE" THEN d[1] ELSE d[2]

\* lines 448-470 / 562-585: the parsed amounts, or the submitted input and the
\* quoted output when the parsing found none
swap_amounts(side, amount_in, expected_out, receipt, d) ==
    LET parsed == parse_swap_amounts_from_receipt(receipt, token_in_of(side),
                                                  token_out_of(side))
        din    == decimals_of(token_in_of(side), d)
        dout   == decimals_of(token_out_of(side), d)
    IN  IF parsed # NoAmounts
          THEN [amount_in |-> human(parsed[1], din), amount_out |-> human(parsed[2], dout)]
          ELSE [amount_in |-> human(amount_in, din),
                amount_out |-> human(expected_out, dout)]

\* session_runner.py lines 264-268: the division of execution_price raises
\* ZeroDivisionError when its divisor is 0.0
execution_price_raises(side, r) ==
    IF side = "BUY" THEN r.amount_in.raw = 0 ELSE r.amount_out.raw = 0

\* what the submitted swaps spend, and what getAmountsOut quoted for them
AmountsIn == {5, 20}
QuotedOuts == {0, 9}

\* quote_decimals and base_decimals
TokenDecimals == {<<6, 18>>, <<18, 18>>}

ReceiptCall(side, a, e, rc, d) ==
    [fn |-> "swap", side |-> side, amount_in |-> a, expected_out |-> e, receipt |-> rc,
     decimals |-> d, stage |-> "mined",
     result |-> [amount_in |-> human(0, 0), amount_out |-> human(0, 0)]]

\* a swap of either side has been submitted and mined with status 1
InitReceipt ==
    /\ InitWith({})
    /\ call \in {ReceiptCall(side, a, e, rc, d) :
                    side \in {"BUY", "SELL"}, a \in AmountsIn, e \in QuotedOuts,
                    rc \in Receipts, d \in TokenDecimals}

\* dex_client.py lines 448-488 / 562-603: the swap operation returns its result
SwapReturns ==
    /\ call.fn = "swap"
    /\ call.stage = "mined"
    /\ call' = [call EXCEPT !.stage = "returned",
                            !.result = swap_amounts(call.side, call.amount_in,
                                                    call.expected_out, call.receipt,
                                                    call.decimals)]
    /\ UNCHANGED <<authorized, db_config, db_state, db_trades, threads, active_sessions,
                   session_locks, cmd, ret, conv, txseq>>

\* session_runner.py lines 263-299: the trade is recorded and the loop goes on
LoopRecords ==
    /\ call.fn = "swap"
    /\ call.stage = "returned"
    /\ ~execution_price_raises(call.side, call.result)
    /\ call' = [call EXCEPT !.stage = "recorded"]
    /\ UNCHANGED <<authorized, db_config, db_state, db_trades, threads, active_sessions,
                   session_locks, cmd, ret, conv, txseq>>

\* session_runner.py lines 264-268, 301-304: execution_price raises, the except
\* clause stops the session with an error and no TradeRecord was saved
LoopStopsWithError ==
    /\ call.fn = "swap"
    /\ call.stage = "returned"
    /\ execution_price_raises(call.side, call.result)
    /\ call' = [call EXCEPT !.stage = "error_stopped"]
    /\ UNCHANGED <<authorized, db_config, db_state, db_trades, threads, active_sessions,
                   session_locks, cmd, ret, conv, txseq>>

NextReceipt == SwapReturns \/ LoopRecords \/ LoopStopsWithError

SpecReceipt == InitReceipt /\ [][NextReceipt]_vars

----------------------------------------------------------------------------
(* C12 *)

\* the receipt of the call shows no input transfer or no output transfer
NothingIdentified ==
    \/ input_transfers(call.receipt, token_in_of(call.side)) = {}
    \/ output_transfers(call.receipt, token_out_of(call.side)) = {}

\* C12: when the receipt of a mined, successful swap shows no identifiable input
\* transfer or no identifiable output transfer, the swap operation returns with
\* amount_in = the submitted input amount and amount_out = the quoted output, and
\* the loop records the trade and keeps running (it does not stop with an error).
C12_FallbackIsRecorded ==
    NothingIdentified =>
        /\ call.stage # "mined" =>
              /\ call.result.amount_in.raw = call.amount_in
              /\ call.result.amount_out.raw = call.expected_out
        /\ call.stage # "error_stopped"

----------------------------------------------------------------------------
(* C13 *)

\* C13: in every persisted SessionState, whatever starts, trades, stops and resets
\* led to it, get_net_quote() is received_quote - spent_notional.
C13_NetQuote ==
    \A u \in DOMAIN db_state :
        get_net_quote(db_state[u]) = db_state[u].received_quote - db_state[u].spent_notional

\* a persisted state after BUYs and a SELL: both accumulators are positive and the
\* net quote is negative
C13_Witness ==
    \E u \in DOMAIN db_state :
        /\ db_state[u].spent_notional > 0
        /\ db_state[u].received_quote > 0
        /\ get_net_quote(db_state[u]) < 0

----------------------------------------------------------------------------
(* session_runner.py with a database whose calls can raise (db.py lines 97-109: *)
(* get_session rolls back and re-raises)                                      *)

\* the outer except clause, lines 310-312
unexpected_error(f) ==
    [f EXCEPT !.pc = "se_read", !.err = "Unexpected error", !.cur = SessionState(0),
              !.tmp = SessionState(0), !.side = "None", !.tx = 0, !.result = NoResult]

\* line 161: get_session_state raises at the loop top; the with-block is left and
\* the outer except clause calls _stop_with_error
LoopTopDbFail(t) ==
    /\ threads[t].pc = "top"
    /\ session_locks[U(t)] = 0
    /\ Frame(t, unexpected_error(threads[t]))
    /\ UNCHANGED <<call, authorized, db_config, db_state, db_trades, active_sessions,
                   session_locks, cmd, ret, conv, txseq>>

\* line 281: save_trade_record raises inside the inner try
SaveTradeDbFail(t) ==
    /\ threads[t].pc = "save_trade"
    /\ Frame(t, [trade_failed(threads[t]) EXCEPT !.result = NoResult])
    /\ UNCHANGED <<call, authorized, db_config, db_state, db_trades, active_sessions,
                   session_locks, cmd, ret, conv, txseq>>

\* line 287: save_session_state raises inside the inner try
SaveStateDbFail(t) ==
    /\ threads[t].pc = "save_state"
    /\ Frame(t, trade_failed(threads[t]))
    /\ UNCHANGED <<call, authorized, db_config, db_state, db_trades, active_sessions,
                   session_locks, cmd, ret, conv, txseq>>

\* lines 331, 335: a database call of _stop_with_error raises. Called from an except
\* clause inside the with-block (lines 194, 303) the exception leaves the block and
\* reaches the outer except clause, which calls _stop_with_error once more; called
\* from the outer except clause (line 312) it leaves _run_session_loop through the
\* finally clause, nothing having been written
StopWithErrorDbFail(t) ==
    /\ threads[t].pc \in {"se_read", "se_save"}
    /\ IF threads[t].err # "Unexpected error"
          THEN Frame(t, unexpected_error(threads[t]))
          ELSE Frame(t, [threads[t] EXCEPT !.pc = "finally", !.tmp = SessionState(0)])
    /\ Release(t)
    /\ UNCHANGED <<call, authorized, db_config, db_state, db_trades, active_sessions, cmd,
                   ret, conv, txseq>>

\* the process has been constructed and user 1 has stored a configuration
InitDb ==
    /\ authorized = {1}
    /\ db_config = (1 :> SessionConfig(1, 1000, 2))
    /\ db_state = <<>>
    /\ db_trades = <<>>
    /\ threads = [t \in ThreadIds |-> NoThread]
    /\ active_sessions = <<>>
    /\ session_locks = <<>>
    /\ cmd = Idle
    /\ ret = [u \in Users |-> "none"]
    /\ conv = {}
    /\ txseq = 0
    /\ call = NoCall

\* start_session, called directly
Starts ==
    \E u \in Users :
        \/ StartSession(u)
        \/ StartSessionCheck(u)
        \/ StartSessionLoad(u)
        \/ StartSessionLaunch(u)
        \/ StartSessionRegister(u)

DbFaults ==
    \E t \in ThreadIds :
        \/ LoopTopDbFail(t)
        \/ SaveTradeDbFail(t)
        \/ SaveStateDbFail(t)
        \/ StopWithErrorDbFail(t)

NextDb == Starts \/ Worker \/ DbFaults

SpecDb == InitDb /\ [][NextDb]_vars

----------------------------------------------------------------------------
(* C14 *)

\* an exception has been raised in the iteration of thread t
Raised(t) == is_alive(t) /\ threads[t].err # "None"

\* C14: once a balance query, a price query, a swap operation or a database call has
\* raised in an iteration, the worker starts no further swap and its loop ends only
\* by persisting active = FALSE with last_error set (non-null).
C14_ExceptionStopsWithError ==
    /\ [](\A t \in ThreadIds :
            Raised(t) => threads[t].pc \in {"se_read", "se_save", "finally"})
    /\ [][\A t \in ThreadIds :
            (Raised(t) /\ threads[t].pc # "finally" /\ threads'[t].pc = "finally")
                => /\ ~db_state'[U(t)].active
                   /\ db_state'[U(t)].last_error # "None"]_vars

----------------------------------------------------------------------------
(* Two users, each with a stored configuration and a session of their own *)

RECURSIVE StateAfter(_, _)

\* the swaps a session makes until its fourth trade is due: BUY, BUY, SELL
EarlierSides == <<"BUY", "BUY", "SELL">>

\* the result of the swap of the given side
ResultOf(side) == CHOOSE r \in SwapResults(side) : TRUE

\* the persisted state of user u after the first n trades of a session
StateAfter(u, n) ==
    IF n = 0
      THEN [reset(SessionState(u)) EXCEPT !.active = TRUE, !.started_at = utcnow(@)]
      ELSE after_trade(apply_result(StateAfter(u, n - 1), EarlierSides[n],
                                    ResultOf(EarlierSides[n])))

\* the trade records of those trades (hashes of an earlier process are not told apart)
RecordsOf(u) ==
    [n \in 1..Len(EarlierSides) |->
        [user_id |-> u, side |-> EarlierSides[n],
         amount_in |-> ResultOf(EarlierSides[n]).amount_in,
         amount_out |-> ResultOf(EarlierSides[n]).amount_out, tx_hash |-> 0]]

\* the process has been constructed on the tables an earlier process left when it
\* was killed: both users have a configuration and a session that was running,
\* three trades done
InitTwoUsers ==
    /\ authorized = Users
    /\ db_config = [u \in Users |-> SessionConfig(u, 1000, 2)]
    /\ db_state = [u \in Users |-> StateAfter(u, Len(EarlierSides))]
    /\ db_trades = RecordsOf(1) \o RecordsOf(2)
    /\ threads = [t \in ThreadIds |-> NoThread]
    /\ active_sessions = <<>>
    /\ session_locks = <<>>
    /\ cmd = Idle
    /\ ret = [u \in Users |-> "none"]
    /\ conv = {}
    /\ txseq = 0
    /\ call = NoCall

NextTwoUsers == Starts \/ Worker

SpecTwoUsers == InitTwoUsers /\ [][NextTwoUsers]_vars

----------------------------------------------------------------------------
(* C15 *)

\* what the process holds for the users other than u: persisted state, registry
\* entry, lock and worker threads
OthersView(u) ==
    [v \in Users \ {u} |->
        [state      |-> get_session_state(v),
         registered |-> IF v \in DOMAIN active_sessions THEN active_sessions[v] ELSE 0,
         lock       |-> IF v \in DOMAIN session_locks THEN session_locks[v] ELSE 0,
         workers    |-> {<<t, threads[t]>> : t \in ThreadsOf(v)}]]

\* thread t takes a step of a failure: the exception, _stop_with_error, or the
\* cleanup that ends the thread
FailureStep(t) ==
    /\ threads'[t] # threads[t]
    /\ \/ threads[t].err # "None"
       \/ threads'[t].err # "None"
       \/ threads[t].pc = "finally"

\* C15: the steps by which a failure stops the session of user u (the exception, the
\* persisted stop, the cleanup) leave every other user's persisted SessionState,
\* registry entry, lock and worker threads as they were, so the workers of the other
\* users can take the same next step as before.
C15_FailureTouchesOneUser ==
    [][\A t \in ThreadIds :
          (is_alive(t) /\ FailureStep(t)) => OthersView(U(t))' = OthersView(U(t))]_vars

\* the session of one user has been stopped by a failure and its worker has ended
\* while the worker of another user is inside an iteration, registered and active
C15_Witness ==
    \E t1, t2 \in ThreadIds :
        /\ threads[t1].pc = "dead"
        /\ get_session_state(threads[t1].user).last_error # "None"
        /\ ~get_session_state(threads[t1].user).active
        /\ threads[t2].user # threads[t1].user
        /\ InIteration(t2)
        /\ threads[t2].user \in DOMAIN active_sessions
        /\ get_session_state(threads[t2].user).active

----------------------------------------------------------------------------
(* dex_client.py: _rpc_call_with_retry *)

MaxRetries == 4

\* values of config.RPC_MAX_RETRIES (an integer read from the environment)
RetryLimits == 0..MaxRetries

\* what func can return and what it can raise
RpcValues == {"a", "b"}
RpcExceptions == {"ConnectionError", "TimeExhausted"}

\* a pause that does not grow
fixed_backoff(attempt) == 1

\* line 106: time.sleep(2 ** attempt)
backoff(attempt) == 2 ^ attempt

\* the call has been entered: last_exception = None, no attempt made (line 98)
RetryCall(n) ==
    [fn |-> "_rpc_call_with_retry", RPC_MAX_RETRIES |-> n, attempt |-> 0,
     last_exception |-> "None", failed |-> <<>>, slept |-> <<>>, calls |-> 0,
     outcome |-> "running", value |-> "None"]

InitRetry ==
    /\ InitWith({})
    /\ call \in {RetryCall(n) : n \in RetryLimits}

\* lines 99-101: func returns and its value is returned at once
AttemptReturns ==
    /\ call.fn = "_rpc_call_with_retry"
    /\ call.outcome = "running"
    /\ call.attempt < call.RPC_MAX_RETRIES
    /\ \E v \in RpcValues :
          call' = [call EXCEPT !.outcome = "returned", !.value = v, !.calls = @ + 1]
    /\ UNCHANGED <<authorized, db_config, db_state, db_trades, threads, active_sessions,
                   session_locks, cmd, ret, conv, txseq>>

\* lines 102-106: func raises; the exception is kept and, unless this was the last
\* attempt, the thread sleeps before the next one
AttemptRaises ==
    /\ call.fn = "_rpc_call_with_retry"
    /\ call.outcome = "running"
    /\ call.attempt < call.RPC_MAX_RETRIES
    /\ \E e \in RpcExceptions :
          call' = [call EXCEPT !.last_exception = e,
                               !.failed = Append(@, e),
                               !.calls = @ + 1,
                               !.slept = IF call.attempt < call.RPC_MAX_RETRIES - 1
                                           THEN Append(@, backoff(call.attempt))
                                           ELSE @,
                               !.attempt = @ + 1]
    /\ UNCHANGED <<authorized, db_config, db_state, db_trades, threads, active_sessions,
                   session_locks, cmd, ret, conv, txseq>>

\* line 107: the range is exhausted, raise last_exception (raising None is a
\* TypeError)
RetriesExhausted ==
    /\ call.fn = "_rpc_call_with_retry"
    /\ call.outcome = "running"
    /\ call.attempt >= call.RPC_MAX_RETRIES
    /\ call' = [call EXCEPT !.outcome = "raised",
                            !.value = IF call.last_exception = "None"
                                        THEN "TypeError" ELSE call.last_exception]
    /\ UNCHANGED <<authorized, db_config, db_state, db_trades, threads, active_sessions,
                   session_locks, cmd, ret, conv, txseq>>

NextRetry == AttemptReturns \/ AttemptRaises \/ RetriesExhausted

SpecRetry == InitRetry /\ [][NextRetry]_vars

----------------------------------------------------------------------------
(* C16 *)

\* C16: a query through _rpc_call_with_retry calls func at most RPC_MAX_RETRIES
\* times; it returns the value of the first attempt that succeeds, nothing being
\* attempted after it; after the k-th failed attempt (k from 0) it has slept 2^k
\* seconds, except after the last attempt; and it raises only when all
\* RPC_MAX_RETRIES attempts have failed.
C16_BoundedRetryWithBackoff ==
    /\ call.calls <= call.RPC_MAX_RETRIES
    /\ (call.outcome = "returned") =>
          /\ call.value \in RpcValues
          /\ call.calls = Len(call.failed) + 1
    /\ (call.outcome # "returned") => call.calls = Len(call.failed)
    /\ Len(call.slept) = IF Len(call.failed) > 0 /\ Len(call.failed) = call.RPC_MAX_RETRIES
                           THEN Len(call.failed) - 1 ELSE Len(call.failed)
    /\ \A k \in 0..(Len(call.slept) - 1) : call.slept[k + 1] = 2 ^ k
    /\ (call.outcome = "raised") => Len(call.failed) = call.RPC_MAX_RETRIES

\* with RPC_MAX_RETRIES = 4 the call has returned at its fourth attempt, after
\* sleeping 1, 2 and 4 seconds
C16_Witness ==
    /\ call.outcome = "returned"
    /\ call.RPC_MAX_RETRIES = 4
    /\ Len(call.failed) = 3
    /\ call.slept = <<1, 2, 4>>

----------------------------------------------------------------------------
(* A session whose configuration row carries a max_position (db.py line 43; the *)
(* commands store None)                                                       *)

InitCapped ==
    /\ authorized = {1}
    /\ db_config = (1 :> [SessionConfig(1, 1000, 2) EXCEPT !.max_position = 50])
    /\ db_state = <<>>
    /\ db_trades = <<>>
    /\ threads = [t \in ThreadIds |-> NoThread]
    /\ active_sessions = <<>>
    /\ session_locks = <<>>
    /\ cmd = Idle
    /\ ret = [u \in Users |-> "none"]
    /\ conv = {}
    /\ txseq = 0
    /\ call = NoCall

\* lines 213-223: the skipped BUY
Skips ==
    \E t \in ThreadIds :
        \/ SkipSave(t)
        \/ SkipSleep(t)

\* stop_session, called directly
Stops ==
    \E u \in Users :
        \/ StopSession(u)
        \/ StopSessionRead(u)
        \/ StopSessionSave(u)

NextCapped == Starts \/ Stops \/ Worker \/ Skips

SpecCapped == InitCapped /\ [][NextCapped]_vars

----------------------------------------------------------------------------
(* C17 *)

\* thread t is in time.sleep(interval_seconds): after a trade (line 308) or after a
\* skipped BUY (line 222)
InSleep(t) == threads[t].pc \in {"sleep", "skip_sleep"}

\* C17: a worker in the inter-trade sleep does not hold the lock of its user,
\* whether it came to the sleep by a trade or by the max-position skip.
C17_NoLockWhileSleeping ==
    \A t \in ThreadIds : InSleep(t) => session_locks[U(t)] # t

----------------------------------------------------------------------------
(* session_runner.py lines 283-299 with the notification as a step of its own: *)
(* asyncio.run(self.send_user_message(...)) runs the callback to its end in   *)
(* the worker thread, inside the with-block and the inner try                 *)

\* lines 283-287: persist the copy; the notification follows
SaveStatePersist(t) ==
    /\ threads[t].pc = "save_state"
    /\ save_session_state(after_trade(threads[t].cur))
    /\ Frame(t, [threads[t] EXCEPT !.pc = "notify", !.cur = SessionState(0),
                                   !.side = "None"])
    /\ UNCHANGED <<call, authorized, db_config, db_trades, active_sessions, session_locks,
                   cmd, ret, conv, txseq>>

\* lines 58-63, 289-299: the callback returns, or raises an Exception that
\* send_user_message logs and drops; asyncio.run returns and the with-block is left
NotifyReturns(t) ==
    /\ threads[t].pc = "notify"
    /\ \E delivered \in BOOLEAN : Frame(t, [threads[t] EXCEPT !.pc = "sleep"])
    /\ Release(t)
    /\ UNCHANGED <<call, authorized, db_config, db_state, db_trades, active_sessions, cmd,
                   ret, conv, txseq>>

\* line 61: the awaited callback never completes; asyncio.run does not return and
\* the thread stays in the with-block
NotifyBlocks(t) ==
    /\ threads[t].pc = "notify"
    /\ Frame(t, [threads[t] EXCEPT !.pc = "notify_blocked"])
    /\ UNCHANGED <<call, authorized, db_config, db_state, db_trades, active_sessions,
                   session_locks, cmd, ret, conv, txseq>>

\* the steps of worker thread t
WorkerNotifyOf(t) ==
    \/ LoopTop(t)
    \/ BalancesFail(t)
    \/ BalancesOk(t)
    \/ PriceFail(t)
    \/ SwapPrepare(t)
    \/ SwapPrepareFail(t)
    \/ SwapSend(t)
    \/ SwapSendFail(t)
    \/ SwapConfirmed(t)
    \/ SwapWaitFail(t)
    \/ SaveTrade(t)
    \/ SaveStatePersist(t)
    \/ NotifyReturns(t)
    \/ NotifyBlocks(t)
    \/ Sleep(t)
    \/ StopWithMessageRead(t)
    \/ StopWithMessageSave(t)
    \/ StopWithErrorRead(t)
    \/ StopWithErrorSave(t)
    \/ Finally(t)

NextNotify == Starts \/ \E t \in ThreadIds : WorkerNotifyOf(t)

\* a started thread runs: each worker thread keeps taking its steps
SpecNotify ==
    /\ InitDb
    /\ [][NextNotify]_vars
    /\ \A t \in ThreadIds : WF_vars(WorkerNotifyOf(t))

----------------------------------------------------------------------------
(* C18 *)

\* thread t has persisted a trade and is delivering its notification
Notifying(t) == threads[t].pc = "notify"

\* C18: whatever the delivery of a trade notification does (it fails, or it does not
\* return), the step leaves every persisted SessionState as it was and does not take
\* the worker to _stop_with_error, and the worker comes to the sleep that precedes
\* its next iteration.
C18_NotificationIsHarmless ==
    /\ [][\A t \in ThreadIds :
            (Notifying(t) /\ threads'[t] # threads[t])
                => /\ db_state' = db_state
                   /\ threads'[t].pc \notin {"se_read", "se_save", "finally", "dead"}]_vars
    /\ \A t \in ThreadIds : Notifying(t) ~> (threads[t].pc = "sleep")

----------------------------------------------------------------------------
(* dex_client.py: ensure_allowance *)

RECURSIVE power_of_two(_)
\* 2 ** k, sixteen doublings at a time (2^16 = 65536) while k allows
power_of_two(k) ==
    IF k = 0 THEN <<1>>
    ELSE IF k >= 16 THEN normal(times(power_of_two(k - 16), 65536, 0))
         ELSE normal(times(power_of_two(k - 1), 2, 0))

RECURSIVE minus_one(_)
\* n - 1 for n > 0
minus_one(ds) ==
    IF ds[1] > 0 THEN normal([ds EXCEPT ![1] = @ - 1]) ELSE <<9>> \o minus_one(Tail(ds))

\* line 205: max_approval = 2**256 - 1
max_approval == minus_one(power_of_two(256))

\* an approval that is sent already when the allowance equals the amount
allowance_at_most(current_allowance, amount) == current_allowance <= amount

\* line 198, negated: the allowance does not cover the amount
allowance_below(current_allowance, amount) == current_allowance < amount

\* amounts a swap asks an allowance for, and allowances the token contract reports
AllowanceAmounts == {0, 5, 20}
ChainAllowances == {0, 5, 19, 20, 100}

\* ensure_allowance(token, amount) has been entered; the token contract holds
\* allowance a for the router. status is that of the receipt (-1: no receipt),
\* result 0 is None
AllowanceCall(token, amount, a) ==
    [fn |-> "ensure_allowance", token |-> token, amount |-> amount, allowance |-> a,
     stage |-> "entered", sent |-> 0, approved |-> <<>>, tx |-> 0, status |-> -1,
     outcome |-> "running", result |-> 0]

InitAllowance ==
    /\ InitWith({})
    /\ call \in {AllowanceCall(token, amount, a) :
                    token \in {"QUOTE", "BASE"}, amount \in AllowanceAmounts,
                    a \in ChainAllowances}

\* lines 191-200: the allowance is read; when it covers the amount, return None
AllowanceRead ==
    /\ call.fn = "ensure_allowance"
    /\ call.stage = "entered"
    /\ call.outcome = "running"
    /\ call' = IF allowance_below(call.allowance, call.amount)
                 THEN [call EXCEPT !.stage = "approve"]
                 ELSE [call EXCEPT !.stage = "read", !.outcome = "returned", !.result = 0]
    /\ UNCHANGED <<authorized, db_config, db_state, db_trades, threads, active_sessions,
                   session_locks, cmd, ret, conv, txseq>>

\* lines 191-196: the allowance query raises after its retries
AllowanceReadFails ==
    /\ call.fn = "ensure_allowance"
    /\ call.stage = "entered"
    /\ call.outcome = "running"
    /\ call' = [call EXCEPT !.stage = "read", !.outcome = "raised"]
    /\ UNCHANGED <<authorized, db_config, db_state, db_trades, threads, active_sessions,
                   session_locks, cmd, ret, conv, txseq>>

\* lines 207-219: the approval of max_approval is built, signed and sent
ApprovalSend ==
    /\ call.fn = "ensure_allowance"
    /\ call.stage = "approve"
    /\ call.outcome = "running"
    /\ call' = [call EXCEPT !.stage = "wait", !.sent = @ + 1, !.approved = max_approval,
                            !.tx = 1]
    /\ UNCHANGED <<authorized, db_config, db_state, db_trades, threads, active_sessions,
                   session_locks, cmd, ret, conv, txseq>>

\* lines 207-215: the nonce or the gas price query raises, nothing is sent
ApprovalBuildFails ==
    /\ call.fn = "ensure_allowance"
    /\ call.stage = "approve"
    /\ call.outcome = "running"
    /\ call' = [call EXCEPT !.stage = "build", !.outcome = "raised"]
    /\ UNCHANGED <<authorized, db_config, db_state, db_trades, threads, active_sessions,
                   session_locks, cmd, ret, conv, txseq>>

\* line 219: send_raw_transaction raises
ApprovalSendFails ==
    /\ call.fn = "ensure_allowance"
    /\ call.stage = "approve"
    /\ call.outcome = "running"
    /\ call' = [call EXCEPT !.stage = "send", !.sent = @ + 1, !.approved = max_approval,
                            !.outcome = "raised"]
    /\ UNCHANGED <<authorized, db_config, db_state, db_trades, threads, active_sessions,
                   session_locks, cmd, ret, conv, txseq>>

\* lines 222-229: the receipt arrives; status 1 returns the hash, any other raises
ApprovalReceipt ==
    /\ call.fn = "ensure_allowance"
    /\ call.stage = "wait"
    /\ call.outcome = "running"
    /\ \E status \in {0, 1} :
          call' = IF status # 1
                    THEN [call EXCEPT !.stage = "receipt", !.status = status,
                                      !.outcome = "raised"]
                    ELSE [call EXCEPT !.stage = "receipt", !.status = status,
                                      !.outcome = "returned", !.result = call.tx]
    /\ UNCHANGED <<authorized, db_config, db_state, db_trades, threads, active_sessions,
                   session_locks, cmd, ret, conv, txseq>>

\* line 222: wait_for_transaction_receipt times out
ApprovalWaitFails ==
    /\ call.fn = "ensure_allowance"
    /\ call.stage = "wait"
    /\ call.outcome = "running"
    /\ call' = [call EXCEPT !.stage = "timeout", !.outcome = "raised"]
    /\ UNCHANGED <<authorized, db_config, db_state, db_trades, threads, active_sessions,
                   session_locks, cmd, ret, conv, txseq>>

NextAllowance ==
    \/ AllowanceRead
    \/ AllowanceReadFails
    \/ ApprovalSend
    \/ ApprovalBuildFails
    \/ ApprovalSendFails
    \/ ApprovalReceipt
    \/ ApprovalWaitFails

SpecAllowance == InitAllowance /\ [][NextAllowance]_vars

----------------------------------------------------------------------------
(* C19 *)

\* C19: ensure_allowance(token, amount) sends nothing and returns None when the
\* current allowance is at least the amount; otherwise it sends one approval, never
\* more, for 2^256 - 1, returns only after the receipt, with the hash of that
\* approval when the status is success, and raises when the status is a failure.
C19_EnsureAllowance ==
    /\ call.allowance >= call.amount =>
          /\ call.sent = 0
          /\ call.outcome = "returned" => call.result = 0
          /\ call.stage \in {"entered", "read"}
    /\ call.sent <= 1
    /\ call.sent = 1 => call.approved = Reverse(UINT256_MAX)
    /\ (call.allowance < call.amount /\ call.outcome = "returned") =>
          /\ call.sent = 1
          /\ call.status = 1
          /\ call.tx # 0
          /\ call.result = call.tx
    /\ call.status = 0 => call.outcome = "raised"

\* an allowance of 19 did not cover 20: the approval was sent, its receipt reported
\* success and its hash was returned
C19_Witness ==
    /\ call.allowance = 19
    /\ call.amount = 20
    /\ call.outcome = "returned"
    /\ call.sent = 1
    /\ call.result = call.tx
    /\ call.status = 1

----------------------------------------------------------------------------
(* C20 *)

\* thread t is in _stop_with_error after a failed trade
TradeFailed(t) == is_alive(t) /\ threads[t].err = "Trade failed"

\* C20: when the receipt of a swap reports failure the swap operation raises: the
\* step appends no TradeRecord and persists nothing, and the stop that follows
\* persists active = FALSE with last_error set, appends no TradeRecord, and leaves
\* trades_executed, pattern_index and the accumulators at their persisted values.
C20_RevertedSwapStopsSession ==
    [][\A t \in ThreadIds :
          /\ (threads[t].pc = "swap_wait" /\ threads'[t].pc # "swap_wait"
                 /\ threads'[t].pc # "save_trade")
               => /\ threads'[t].pc = "se_read"
                  /\ db_trades' = db_trades
                  /\ db_state' = db_state
          /\ (TradeFailed(t) /\ threads'[t] # threads[t])
               => /\ db_trades' = db_trades
                  /\ threads'[t].pc \in {"se_save", "finally"}
                  /\ threads'[t].pc = "finally" =>
                        /\ ~db_state'[U(t)].active
                        /\ db_state'[U(t)].last_error = "Trade failed"
                        /\ Counters(db_state'[U(t)]) = Counters(get_session_state(U(t)))]_vars

----------------------------------------------------------------------------
(* C21 *)

\* C21: the persisted trades_executed never exceeds MAX_TRADES_PER_SESSION, no
\* iteration trades on a copy that has reached the maximum, and a loop-top check
\* that finds an active session with trades_executed >= the maximum goes to
\* stop-with-message (no balance query, no swap), whose save persists active = FALSE.
C21_MaxTradesBound ==
    /\ [](/\ \A u \in DOMAIN db_state :
                db_state[u].trades_executed <= MAX_TRADES_PER_SESSION
          /\ \A t \in ThreadIds :
                InIteration(t) => threads[t].cur.trades_executed < MAX_TRADES_PER_SESSION)
    /\ [][\A t \in ThreadIds :
            (/\ threads[t].pc = "top"
             /\ threads'[t].pc # "top"
             /\ get_session_state(U(t)).active
             /\ get_session_state(U(t)).trades_executed >= MAX_TRADES_PER_SESSION)
                => /\ threads'[t].pc = "sm_read"
                   /\ txseq' = txseq
                   /\ db_trades' = db_trades
                   /\ db_state' = db_state]_vars

\* a worker that found the maximum reached is in _stop_with_message, about to save
\* the state with active = FALSE
C21_Witness ==
    \E t \in ThreadIds :
        /\ threads[t].pc = "sm_save"
        /\ ~threads[t].tmp.active
        /\ threads[t].tmp.trades_executed = MAX_TRADES_PER_SESSION
        /\ get_session_state(U(t)).trades_executed = MAX_TRADES_PER_SESSION

----------------------------------------------------------------------------
(* C22 *)

\* C22: the save of a skipped BUY (base balance >= max_position) submits no swap and
\* appends no TradeRecord, raises the persisted pattern_index by exactly 1, leaves
\* trades_executed and the accumulators as persisted and the session active, and the
\* worker comes back to the loop top after its sleep.
C22_SkipAdvancesPatternOnly ==
    [][\A t \in ThreadIds :
          /\ (threads[t].pc = "skip_save" /\ threads'[t].pc # "skip_save")
               => LET old == get_session_state(U(t))
                      new == db_state'[U(t)]
                  IN  /\ threads'[t].pc = "skip_sleep"
                      /\ txseq' = txseq
                      /\ db_trades' = db_trades
                      /\ new.pattern_index = old.pattern_index + 1
                      /\ new.trades_executed = old.trades_executed
                      /\ new.spent_notional = old.spent_notional
                      /\ new.received_quote = old.received_quote
                      /\ new.base_position_delta = old.base_position_delta
                      /\ new.active
          /\ (threads[t].pc = "skip_sleep" /\ threads'[t].pc # "skip_sleep")
               => /\ threads'[t].pc = "top"
                  /\ db_state' = db_state
                  /\ db_trades' = db_trades]_vars

----------------------------------------------------------------------------
(* C23 *)

\* the balances and price an iteration of thread t can be answered with that do not
\* cover its trade: quote below the notional on a BUY, base below notional / price
\* on a SELL
Insufficient(t, q, b, p) ==
    IF threads[t].side = "BUY"
      THEN q < get_trade_amount(threads[t].cfg)
      ELSE p > 0 /\ b * p < get_trade_amount(threads[t].cfg)

\* C23: whatever balances an iteration is answered with, if they are insufficient
\* for its side the iteration goes to stop-with-message and not to the swap; the
\* step starts no swap and persists nothing, and the stop-with-message persists
\* active = FALSE and leaves the counters and accumulators as persisted.
C23_NoSwapOnInsufficientBalance ==
    /\ [](\A t \in ThreadIds :
            threads[t].pc = "balances" =>
                \A q \in QuoteBalances, b \in BaseBalances, p \in Prices :
                    Insufficient(t, q, b, p) =>
                        (IF threads[t].side = "BUY"
                           THEN buy_checks(threads[t], q, b)
                           ELSE sell_checks(threads[t], b, p)).pc = "sm_read")
    /\ [][\A t \in ThreadIds :
            /\ (threads[t].pc = "balances" /\ threads'[t].pc = "sm_read")
                 => /\ txseq' = txseq
                    /\ db_trades' = db_trades
                    /\ db_state' = db_state
            /\ (threads[t].pc = "sm_save" /\ threads'[t].pc = "finally")
                 => /\ ~db_state'[U(t)].active
                    /\ db_trades' = db_trades
                    /\ txseq' = txseq
                    /\ Counters(db_state'[U(t)]) = Counters(get_session_state(U(t)))]_vars

----------------------------------------------------------------------------
(* C24 *)

\* C24: a swap confirmed for user u (thread at save_trade, holding its hash) is
\* followed by exactly one new TradeRecord of u with that hash; records are only
\* ever appended, one at a time, by such a step (never for a failed or unsent swap,
\* never changed or removed by a request or a later iteration), and no two records
\* carry the same hash.
C24_OneRecordPerConfirmedSwap ==
    /\ [](\A i, j \in DOMAIN db_trades :
            /\ db_trades[i].tx_hash \in 1..txseq
            /\ (db_trades[i].tx_hash = db_trades[j].tx_hash => i = j))
    /\ [][/\ \A t \in ThreadIds :
               (threads[t].pc = "save_trade" /\ threads'[t].pc # "save_trade")
                   => /\ db_trades' = Append(db_trades, TradeRecord(threads[t]))
                      /\ TradeRecord(threads[t]).user_id = U(t)
                      /\ TradeRecord(threads[t]).tx_hash = threads[t].tx
          /\ db_trades' # db_trades
               => \E t \in ThreadIds :
                     /\ threads[t].pc = "save_trade"
                     /\ db_trades' = Append(db_trades, TradeRecord(threads[t]))]_vars

----------------------------------------------------------------------------
(* main.py: cmd_setpct and cmd_setinterval, next to the /config conversation *)

\* the values a user sends with /setpct and /setinterval
NewPcts == {4}
NewIntervals == {120}

\* cmd_setpct, lines 387-393: refused while the persisted flag is set
CmdSetpct(u) ==
    /\ Dispatch(u)
    /\ IF is_session_active(u)
          THEN cmd' = cmd
          ELSE Enter(u, "cmd_setpct", "save")
    /\ UNCHANGED <<call, authorized, db_config, db_state, db_trades, threads, active_sessions,
                   session_locks, ret, conv, txseq>>

\* cmd_setpct, lines 395-427: no row, a bad argument, or the row is updated
CmdSetpctSave(u) ==
    /\ At(u, "cmd_setpct", "save")
    /\ \/ db_config' = db_config
       \/ /\ has_session_config(u)
          /\ \E pct \in NewPcts :
                 save_session_config([db_config[u] EXCEPT !.trade_pct = pct])
    /\ cmd' = Idle
    /\ UNCHANGED <<call, authorized, db_state, db_trades, threads, active_sessions,
                   session_locks, ret, conv, txseq>>

\* cmd_setinterval, lines 436-442: refused while the persisted flag is set
CmdSetinterval(u) ==
    /\ Dispatch(u)
    /\ IF is_session_active(u)
          THEN cmd' = cmd
          ELSE Enter(u, "cmd_setinterval", "save")
    /\ UNCHANGED <<call, authorized, db_config, db_state, db_trades, threads, active_sessions,
                   session_locks, ret, conv, txseq>>

\* cmd_setinterval, lines 444-473: no row, a bad argument, or the row is updated
CmdSetintervalSave(u) ==
    /\ At(u, "cmd_setinterval", "save")
    /\ \/ db_config' = db_config
       \/ /\ has_session_config(u)
          /\ \E secs \in NewIntervals :
                 save_session_config([db_config[u] EXCEPT !.interval_seconds = secs])
    /\ cmd' = Idle
    /\ UNCHANGED <<call, authorized, db_state, db_trades, threads, active_sessions,
                   session_locks, ret, conv, txseq>>

ConfigRequests ==
    \E u \in Users :
        \/ CmdConfigStart(u)
        \/ ConfigInterval(u)
        \/ ConfigCancel(u)
        \/ CmdSetpct(u)
        \/ CmdSetpctSave(u)
        \/ CmdSetinterval(u)
        \/ CmdSetintervalSave(u)

NextConfig == Starts \/ Stops \/ Worker \/ ConfigRequests

SpecConfig == InitDb /\ [][NextConfig]_vars

----------------------------------------------------------------------------
(* C25 *)

\* C25: while the persisted state of user u is active no step changes u's stored
\* SessionConfig, and the configuration held by a live worker never changes.
C25_NoConfigChangeWhileActive ==
    /\ [][\A u \in Users :
            (is_session_active(u) /\ has_session_config(u))
                => (u \in DOMAIN db_config' /\ db_config'[u] = db_config[u])]_vars
    /\ [][\A t \in ThreadIds :
            (is_alive(t) /\ threads'[t].pc \notin {"none", "dead"})
                => threads'[t].cfg = threads[t].cfg]_vars

----------------------------------------------------------------------------
(* C26 *)

\* C26: once a reset has persisted the cleared state of user u (all counters 0, not
\* active, no error, no timestamps), the only step that changes u's persisted
\* SessionState is the save of the next start_session(u); no worker writes it.
C26_ResetStaysUntilStart ==
    [][\A u \in Users :
          (/\ u \in DOMAIN db_state
           /\ IsCleared(db_state[u])
           /\ db_state'[u] # db_state[u])
              => At(u, "start_session", "save")]_vars

----------------------------------------------------------------------------
(* C27 *)

\* C27: a persisted last_error (written by a stop-with-error of user u) is only
\* cleared by the save of a start_session(u) or of a reset of u; no other step,
\* in particular no stop_session(u) running beside the worker, makes it null.
C27_LastErrorStays ==
    [][\A u \in Users :
          (/\ u \in DOMAIN db_state
           /\ db_state[u].last_error # "None"
           /\ db_state'[u].last_error = "None")
              => (At(u, "start_session", "save") \/ At(u, "cmd_reset", "save"))]_vars

----------------------------------------------------------------------------
(* C28 *)

----------------------------------------------------------------------------
(* C29 *)

\* C29: a confirmed BUY adds amount_in to spent_notional and amount_out to
\* base_position_delta and leaves received_quote; a confirmed SELL adds amount_out
\* to received_quote, subtracts amount_in from base_position_delta and leaves
\* spent_notional; and between the saves of a start and of a reset no step lowers
\* the persisted spent_notional or received_quote of a user.
C29_AccumulatorsOnlyGrow ==
    [][/\ \A t \in ThreadIds :
             LET f == threads[t]
                 g == threads'[t]
             IN  (f.pc = "swap_wait" /\ g.pc = "save_trade")
                    => IF f.side = "BUY"
                         THEN /\ g.cur.spent_notional
                                    = f.cur.spent_notional + g.result.amount_in
                              /\ g.cur.base_position_delta
                                    = f.cur.base_position_delta + g.result.amount_out
                              /\ g.cur.received_quote = f.cur.received_quote
                         ELSE /\ g.cur.received_quote
                                    = f.cur.received_quote + g.result.amount_out
                              /\ g.cur.base_position_delta
                                    = f.cur.base_position_delta - g.result.amount_in
                              /\ g.cur.spent_notional = f.cur.spent_notional
       /\ \A u \in DOMAIN db_state :
             ~(CommandStep /\ (At(u, "start_session", "save") \/ At(u, "cmd_reset", "save")))
                => /\ db_state'[u].spent_notional >= db_state[u].spent_notional
                   /\ db_state'[u].received_quote >= db_state[u].received_quote]_vars

----------------------------------------------------------------------------
(* C30 *)

\* C30: the save of a start_session(u) that goes on persists active = true and, when
\* the persisted state before it was inactive, trades_executed, spent_notional,
\* received_quote, base_position_delta and pattern_index 0 with last_error and
\* stopped_at null; when the persisted state before it was active (no worker of u
\* lives), the counters, pattern_index, last_error and stopped_at as they were.
C30_StartResetsOnlyStoppedState ==
    [][\A u \in Users :
          (At(u, "start_session", "save") /\ CommandStep)
             => LET old == get_session_state(u)
                    new == db_state'[u]
                IN  /\ new.active
                    /\ ThreadsOf(u) \cap {t \in ThreadIds : is_alive(t)} = {}
                    /\ IF ~old.active
                         THEN /\ Counters(new) = <<0, 0, 0, 0, 0>>
                              /\ new.last_error = "None"
                              /\ new.stopped_at = 0
                         ELSE /\ Counters(new) = Counters(old)
                              /\ new.last_error = old.last_error
                              /\ new.stopped_at = old.stopped_at]_vars

\* C30 witness: user 1 was started on the active state a killed process left (three
\* trades), made a fourth trade, was stopped, and has been started again: the second
\* start has persisted an active state with all counters 0
C30_Witness ==
    /\ At(1, "start_session", "register")
    /\ cmd.tid = 2
    /\ threads[1].pc = "dead"
    /\ threads[1].user = 1
    /\ Len(SelectSeq(db_trades, LAMBDA r : r.user_id = 1)) = Len(EarlierSides) + 1
    /\ db_state[1].active
    /\ Counters(db_state[1]) = <<0, 0, 0, 0, 0>>
    /\ db_state[1].stopped_at = 0

----------------------------------------------------------------------------
(* C31 *)

\* C31: the save of a user-requested stop, of a stop-with-message and of a
\* stop-with-error leaves the persisted trades_executed, pattern_index,
\* spent_notional, received_quote, base_position_delta (and started_at) of the user
\* as they were persisted, persists active = false, and leaves last_error too unless
\* it is a stop-with-error.
C31_StopsKeepCounters ==
    [][/\ \A u \in Users :
             (At(u, "stop_session", "save") /\ CommandStep)
                => /\ Counters(db_state'[u]) = Counters(get_session_state(u))
                   /\ db_state'[u].started_at = get_session_state(u).started_at
                   /\ db_state'[u].last_error = get_session_state(u).last_error
                   /\ ~db_state'[u].active
       /\ \A t \in ThreadIds :
             /\ (threads[t].pc = "sm_save" /\ threads'[t].pc # "sm_save")
                   => /\ Counters(db_state'[U(t)]) = Counters(get_session_state(U(t)))
                      /\ db_state'[U(t)].started_at = get_session_state(U(t)).started_at
                      /\ db_state'[U(t)].last_error = get_session_state(U(t)).last_error
                      /\ ~db_state'[U(t)].active
             /\ (threads[t].pc = "se_save" /\ threads'[t].pc # "se_save")
                   => /\ Counters(db_state'[U(t)]) = Counters(get_session_state(U(t)))
                      /\ db_state'[U(t)].started_at = get_session_state(U(t)).started_at
                      /\ ~db_state'[U(t)].active]_vars

----------------------------------------------------------------------------
(* C32 *)

\* C32: no step other than the save of a start_session(u) or of a reset of u lowers
\* the persisted pattern_index of user u.
C32_PatternIndexNeverDecreases ==
    [][\A u \in DOMAIN db_state :
          ~(CommandStep /\ (At(u, "start_session", "save") \/ At(u, "cmd_reset", "save")))
             => db_state'[u].pattern_index >= db_state[u].pattern_index]_vars

----------------------------------------------------------------------------
(* dex_client.py: swap_exact_quote_for_base / swap_exact_base_for_quote step by *)
(* step, called by the workers of two users on the one DexClient and wallet     *)

\* the workers that call the shared DexClient, one per user (session_runner.py 38:
\* one dex_client; 97-99 and 160: the lock is per user)
SwapWorkers == Users

\* raw amounts the swaps are entered with
SwapAmounts == {20}

\* token_in of a swap: the quote token on a BUY, the base token on a SELL
SwapToken(side) == IF side = "BUY" THEN "QUOTE" ELSE "BASE"

\* a swap operation that has just been entered: nonce -1 is no transaction built,
\* status -1 no receipt, done the steps completed so far, in order
SwapOp(side, amount) ==
    [side |-> side, amount_in |-> amount, stage |-> "allowance", nonce |-> -1,
     expected_out |-> 0, status |-> -1, done |-> <<>>]

\* the wallet on the chain: mined is what get_transaction_count answers, pending the
\* nonces of transactions the node holds, allowance what the token contracts report
\* for the router, unlimited the tokens approved with max_approval
InitSwap ==
    /\ InitWith({})
    /\ call \in {[fn |-> "swaps", mined |-> 0, pending |-> {},
                  allowance |-> [k \in {"QUOTE", "BASE"} |-> a], unlimited |-> {},
                  ops |-> [w \in SwapWorkers |-> SwapOp(sides[w], amount)]] :
                    a \in {0, 100}, amount \in SwapAmounts,
                    sides \in [SwapWorkers -> {"BUY", "SELL"}]}

\* worker w's operation becomes op, the chain fields become as given
SwapStep(w, op, mined, pending, unlimited) ==
    /\ call' = [call EXCEPT !.ops[w] = op, !.mined = mined, !.pending = pending,
                            !.unlimited = unlimited]
    /\ UNCHANGED <<authorized, db_config, db_state, db_trades, threads, active_sessions,
                   session_locks, cmd, ret, conv, txseq>>

\* worker w's operation becomes op, the chain is not touched
SwapLocal(w, op) == SwapStep(w, op, call.mined, call.pending, call.unlimited)

\* the node takes a transaction with this nonce: it is the next one of the wallet and
\* no transaction with it is held
node_accepts(nonce) == nonce = call.mined /\ nonce \notin call.pending

\* lines 398-400 / 510-515 and ensure_allowance 191-200: amount conversion (with
\* get_price on a SELL), then the allowance is read; enough returns None
SwapAllowance(w) ==
    /\ call.fn = "swaps"
    /\ call.ops[w].stage = "allowance"
    /\ LET op == call.ops[w]
           k  == SwapToken(op.side)
       IN  IF k \notin call.unlimited /\ allowance_below(call.allowance[k], op.amount_in)
             THEN SwapLocal(w, [op EXCEPT !.stage = "approve_build"])
             ELSE SwapLocal(w, [op EXCEPT !.stage = "quote",
                                          !.done = Append(@, "allowance")])

\* ensure_allowance 207-215: the approval is built with the nonce read now
SwapApprovalBuild(w) ==
    /\ call.fn = "swaps"
    /\ call.ops[w].stage = "approve_build"
    /\ SwapLocal(w, [call.ops[w] EXCEPT !.stage = "approve_send", !.nonce = call.mined])

\* ensure_allowance 218-219: the approval is signed and sent, the node takes it
SwapApprovalSend(w) ==
    /\ call.fn = "swaps"
    /\ call.ops[w].stage = "approve_send"
    /\ node_accepts(call.ops[w].nonce)
    /\ SwapStep(w, [call.ops[w] EXCEPT !.stage = "approve_wait"], call.mined,
                call.pending \cup {call.ops[w].nonce}, call.unlimited)

\* ensure_allowance 222-229: the approval is mined; status 1 returns, any other raises
SwapApprovalReceipt(w) ==
    /\ call.fn = "swaps"
    /\ call.ops[w].stage = "approve_wait"
    /\ LET op == call.ops[w]
       IN  \E status \in {0, 1} :
              IF status # 1
                THEN SwapStep(w, [op EXCEPT !.stage = "raised", !.nonce = -1],
                              call.mined + 1, call.pending \ {op.nonce}, call.unlimited)
                ELSE SwapStep(w, [op EXCEPT !.stage = "quote", !.nonce = -1,
                                            !.done = Append(@, "allowance")],
                              call.mined + 1, call.pending \ {op.nonce},
                              call.unlimited \cup {SwapToken(op.side)})

\* lines 402-412 / 517-527: getAmountsOut answers, the minimum output is computed
SwapQuote(w) ==
    /\ call.fn = "swaps"
    /\ call.ops[w].stage = "quote"
    /\ \E out \in {0, 9} :
          SwapLocal(w, [call.ops[w] EXCEPT !.stage = "build", !.expected_out = out,
                                           !.done = Append(@, "quote")])

\* lines 420-434 / 535-549: the swap is built with the deadline and the nonce read now
SwapBuild(w) ==
    /\ call.fn = "swaps"
    /\ call.ops[w].stage = "build"
    /\ SwapLocal(w, [call.ops[w] EXCEPT !.stage = "send", !.nonce = call.mined])

\* lines 437-438 / 552-553: the swap is signed and sent, the node takes it
SwapSubmit(w) ==
    /\ call.fn = "swaps"
    /\ call.ops[w].stage = "send"
    /\ node_accepts(call.ops[w].nonce)
    /\ SwapStep(w, [call.ops[w] EXCEPT !.stage = "wait", !.done = Append(@, "submit")],
                call.mined, call.pending \cup {call.ops[w].nonce}, call.unlimited)

\* a swap that goes on whatever the receipt says
any_receipt(status) == "reconcile"

\* lines 445-446 / 560-561: a receipt whose status is not 1 raises
receipt_stage(status) == IF status # 1 THEN "raised" ELSE "reconcile"

\* lines 443-446 / 558-561: the receipt arrives; a status other than 1 raises
SwapReceipt(w) ==
    /\ call.fn = "swaps"
    /\ call.ops[w].stage = "wait"
    /\ LET op == call.ops[w]
       IN  \E status \in {0, 1} :
              SwapStep(w, [op EXCEPT !.stage = receipt_stage(status),
                                     !.status = status, !.nonce = -1,
                                     !.done = Append(@, "confirm")],
                       call.mined + 1, call.pending \ {op.nonce}, call.unlimited)

\* lines 448-488 / 563-603: the amounts are parsed from the receipt (or the expected
\* ones are taken) and the result is returned
SwapReconcile(w) ==
    /\ call.fn = "swaps"
    /\ call.ops[w].stage = "reconcile"
    /\ SwapLocal(w, [call.ops[w] EXCEPT !.stage = "returned",
                                        !.done = Append(@, "reconcile")])

\* a call of the operation raises: a read call after its retries (get_price, allowance,
\* getAmountsOut, get_block, get_transaction_count, gas price), a send the node
\* refuses or that fails, a wait that times out; the exception leaves the operation.
\* A transaction the node refuses is never held; one that was sent stays pending
SwapRaises(w) ==
    /\ call.fn = "swaps"
    /\ call.ops[w].stage \in {"allowance", "approve_build", "approve_send", "approve_wait",
                              "quote", "build", "send", "wait"}
    /\ SwapLocal(w, [call.ops[w] EXCEPT !.stage = "raised"])

NextSwap ==
    \E w \in SwapWorkers :
        \/ SwapAllowance(w)
        \/ SwapApprovalBuild(w)
        \/ SwapApprovalSend(w)
        \/ SwapApprovalReceipt(w)
        \/ SwapQuote(w)
        \/ SwapBuild(w)
        \/ SwapSubmit(w)
        \/ SwapReceipt(w)
        \/ SwapReconcile(w)
        \/ SwapRaises(w)

SpecSwap == InitSwap /\ [][NextSwap]_vars

----------------------------------------------------------------------------
(* C33 *)

\* the steps of a swap operation in the order the specification gives them
SwapOrder == <<"allowance", "quote", "submit", "confirm", "reconcile">>

\* C33: the steps a swap operation has completed are always an initial part of
\* allowance, quote, submission, confirmation, reconciliation: a swap is submitted
\* (or built) only after ensure_allowance and the router quote have returned, and
\* reconciliation is reached only with a receipt of status 1.
C33_SwapStepsInOrder ==
    \A w \in SwapWorkers :
        call.fn = "swaps" =>
            LET op == call.ops[w]
            IN  /\ Len(op.done) <= Len(SwapOrder)
                /\ op.done = SubSeq(SwapOrder, 1, Len(op.done))
                /\ op.stage \in {"build", "send", "wait"} => Len(op.done) >= 2
                /\ op.stage = "wait" => Len(op.done) = 3
                /\ op.stage \in {"reconcile", "returned"} => op.status = 1
                /\ Len(op.done) = 5 => op.status = 1

\* C33 witness: a SELL that needed an approval has returned with all five steps done
\* while the other worker's swap was refused
C33_Witness ==
    /\ call.fn = "swaps"
    /\ \E w \in SwapWorkers :
          /\ call.ops[w].stage = "returned"
          /\ call.ops[w].side = "SELL"
          /\ call.ops[w].done = SwapOrder
          /\ "BASE" \in call.unlimited
    /\ \E w \in SwapWorkers : call.ops[w].stage = "raised"

----------------------------------------------------------------------------
(* dex_client.py: reconciliation on receipts of up to three logs *)

MaxReconcileLogs == 3

\* a swap of either side has been mined with status 1; its receipt has up to three
\* logs, so that transfers beside the swap's own two are seen
InitReconcile ==
    /\ InitWith({})
    /\ call \in {ReceiptCall(side, 20, e, rc, <<18, 18>>) :
                    side \in {"BUY", "SELL"}, e \in QuotedOuts,
                    rc \in UNION {[1..n -> Logs] : n \in 0..MaxReconcileLogs}}

SpecReconcile == InitReconcile /\ [][NextReceipt]_vars

----------------------------------------------------------------------------
(* C34 *)

\* the log is a transfer of the input token sent by the wallet
IsInput(l, side) == l.decodable /\ l.address = token_in_of(side) /\ l.from = "wallet"

\* the log is a transfer of the output token received by the wallet
IsOutput(l, side) == l.decodable /\ l.address = token_out_of(side) /\ l.to = "wallet"

\* the receipt without the logs that are neither
Relevant(rc, side) == SelectSeq(rc, LAMBDA l : IsInput(l, side) \/ IsOutput(l, side))

\* C34: the amounts a swap returns are those it would return for the receipt without
\* the transfers of other tokens and of the two tokens between other addresses; a
\* reconciled input amount is the value of a transfer of the input token sent by the
\* wallet, a reconciled output amount that of a transfer of the output token received
\* by the wallet.
C34_OnlyWalletTransfersCount ==
    (call.fn = "swap" /\ call.stage # "mined") =>
        LET parsed == parse_swap_amounts_from_receipt(call.receipt, token_in_of(call.side),
                                                      token_out_of(call.side))
        IN  /\ call.result = swap_amounts(call.side, call.amount_in, call.expected_out,
                                          Relevant(call.receipt, call.side), call.decimals)
            /\ parsed # NoAmounts =>
                  /\ call.result.amount_in.raw = parsed[1]
                  /\ call.result.amount_out.raw = parsed[2]
                  /\ \E i \in DOMAIN call.receipt :
                        /\ IsInput(call.receipt[i], call.side)
                        /\ call.receipt[i].value = parsed[1]
                  /\ \E i \in DOMAIN call.receipt :
                        /\ IsOutput(call.receipt[i], call.side)
                        /\ call.receipt[i].value = parsed[2]

\* C34 witness: a BUY has returned 7 in and 7 out from a receipt whose third log is a
\* larger transfer of the input token between other addresses
C34_Witness ==
    /\ call.fn = "swap"
    /\ call.stage = "returned"
    /\ call.side = "BUY"
    /\ Len(call.receipt) = 3
    /\ \E i \in DOMAIN call.receipt :
          /\ call.receipt[i].decodable
          /\ call.receipt[i].address = "QUOTE"
          /\ call.receipt[i].from = "pair"
          /\ call.receipt[i].value = 9
    /\ call.result.amount_in.raw = 7
    /\ call.result.amount_out.raw = 7

----------------------------------------------------------------------------
(* C35 *)

\* the positions of the receipt's input transfers and of its output transfers
InputLogs(rc, side) == {i \in DOMAIN rc : IsInput(rc[i], side)}
OutputLogs(rc, side) == {i \in DOMAIN rc : IsOutput(rc[i], side)}

\* C35: when the receipt of a returned swap has matching transfers on both sides with
\* a positive value on each, the reconciled input amount is the value of one of the
\* input transfers and no input transfer has a larger one, and likewise for the
\* output amount: with several matching transfers it is their maximum.
C35_LargestTransferIsUsed ==
    (call.fn = "swap" /\ call.stage # "mined") =>
        LET rc   == call.receipt
            ins  == InputLogs(rc, call.side)
            outs == OutputLogs(rc, call.side)
        IN  (/\ \E i \in ins : rc[i].value > 0
             /\ \E o \in outs : rc[o].value > 0)
               => /\ \E i \in ins : call.result.amount_in.raw = rc[i].value
                  /\ \A i \in ins : rc[i].value <= call.result.amount_in.raw
                  /\ \E o \in outs : call.result.amount_out.raw = rc[o].value
                  /\ \A o \in outs : rc[o].value <= call.result.amount_out.raw

\* C35 witness: a swap has returned from a receipt with the input transfers 7 and 9,
\* in this order, and one output transfer: the input amount is 9
C35_Witness ==
    /\ call.fn = "swap"
    /\ call.stage = "returned"
    /\ \E i, j \in InputLogs(call.receipt, call.side) :
          /\ i < j
          /\ call.receipt[i].value = 7
          /\ call.receipt[j].value = 9
    /\ OutputLogs(call.receipt, call.side) # {}
    /\ call.result.amount_in.raw = 9
    /\ call.result.amount_out.raw = 7

----------------------------------------------------------------------------
(* A session that is started once: every call returns, stop requests come at any *)
(* time, the worker thread keeps running                                        *)

\* the steps of worker thread t
WorkerOf(t) ==
    \/ LoopTop(t)
    \/ BalancesFail(t)
    \/ BalancesOk(t)
    \/ PriceFail(t)
    \/ SwapPrepare(t)
    \/ SwapPrepareFail(t)
    \/ SwapSend(t)
    \/ SwapSendFail(t)
    \/ SwapConfirmed(t)
    \/ SwapWaitFail(t)
    \/ SaveTrade(t)
    \/ SaveState(t)
    \/ Sleep(t)
    \/ StopWithMessageRead(t)
    \/ StopWithMessageSave(t)
    \/ StopWithErrorRead(t)
    \/ StopWithErrorSave(t)
    \/ Finally(t)

\* start_session is called for a user who has had no worker yet
FirstStart ==
    \E u \in Users :
        \/ ThreadsOf(u) = {} /\ StartSession(u)
        \/ StartSessionCheck(u)
        \/ StartSessionLoad(u)
        \/ StartSessionLaunch(u)
        \/ StartSessionRegister(u)

NextOnce == FirstStart \/ Stops \/ \E t \in ThreadIds : WorkerOf(t)

SpecOnce ==
    /\ InitDb
    /\ [][NextOnce]_vars
    /\ \A t \in ThreadIds : WF_vars(WorkerOf(t))

----------------------------------------------------------------------------
(* C36 *)

\* C36: a started worker thread always comes to its end, the persisted state of its
\* user is in the end inactive for good, and the session has left at most
\* MAX_TRADES_PER_SESSION TradeRecords.
C36_SessionEnds ==
    /\ \A t \in ThreadIds : is_alive(t) ~> (threads[t].pc = "dead")
    /\ \A u \in Users : <>[](~is_session_active(u))
    /\ [](\A u \in Users :
            Len(SelectSeq(db_trades, LAMBDA r : r.user_id = u)) <= MAX_TRADES_PER_SESSION)

\* C36 witness: the worker has ended after the maximum number of trades
C36_Witness ==
    \E t \in ThreadIds :
        /\ threads[t].pc = "dead"
        /\ Len(db_trades) = MAX_TRADES_PER_SESSION
        /\ get_session_state(U(t)).trades_executed = MAX_TRADES_PER_SESSION
        /\ ~get_session_state(U(t)).active

----------------------------------------------------------------------------
(* models.py: SessionConfig.__post_init__ on Python numbers *)

\* a Python float: a number, or nan (float("nan"), which validate_float_input in
\* main.py lines 115-127 lets through: every comparison with nan is False)
Float(x) == [nan |-> FALSE, v |-> x]
NaN == [nan |-> TRUE, v |-> 0]

\* a < b and a <= b on floats: False when either is nan
float_lt(a, b) == ~a.nan /\ ~b.nan /\ a.v < b.v
float_le(a, b) == ~a.nan /\ ~b.nan /\ a.v <= b.v

\* the arguments SessionConfig is constructed with
ConfigFloats == {NaN, Float(-1), Float(0), Float(1), Float(100), Float(101)}
ConfigInts == {-1, 0, 1, 50, 10000, 10001}

\* SessionConfig.__post_init__, lines 25-36: TRUE when a ValueError is raised
post_init_raises(c) ==
    \/ float_le(c.total_liquidity, Float(0))
    \/ ~(float_lt(Float(0), c.trade_pct) /\ float_le(c.trade_pct, Float(100)))
    \/ c.interval_seconds < 1
    \/ c.slippage_bps < 0 \/ c.slippage_bps > 10000
    \/ float_lt(c.min_notional, Float(0))

\* SessionConfig(...) is being constructed with these fields
InitValidate ==
    /\ InitWith({})
    /\ call \in {[fn |-> "SessionConfig", outcome |-> "running",
                  config |-> [total_liquidity |-> l, trade_pct |-> p,
                              interval_seconds |-> i, slippage_bps |-> s,
                              min_notional |-> m]] :
                    l \in ConfigFloats, p \in ConfigFloats, i \in {0, 1, 60},
                    s \in ConfigInts, m \in {NaN, Float(-1), Float(0), Float(10)}}

\* the generated __init__ returns after __post_init__
ConstructReturns ==
    /\ call.fn = "SessionConfig"
    /\ call.outcome = "running"
    /\ ~post_init_raises(call.config)
    /\ call' = [call EXCEPT !.outcome = "returned"]
    /\ UNCHANGED <<authorized, db_config, db_state, db_trades, threads, active_sessions,
                   session_locks, cmd, ret, conv, txseq>>

\* __post_init__ raises ValueError
ConstructRaises ==
    /\ call.fn = "SessionConfig"
    /\ call.outcome = "running"
    /\ post_init_raises(call.config)
    /\ call' = [call EXCEPT !.outcome = "raised"]
    /\ UNCHANGED <<authorized, db_config, db_state, db_trades, threads, active_sessions,
                   session_locks, cmd, ret, conv, txseq>>

NextValidate == ConstructReturns \/ ConstructRaises

SpecValidate == InitValidate /\ [][NextValidate]_vars

----------------------------------------------------------------------------
(* C37 *)

\* the bounds of the specification: total_liquidity > 0, 0 < trade_pct <= 100,
\* interval_seconds >= 1, 0 <= slippage_bps <= 10000, min_notional >= 0
WithinBounds(c) ==
    /\ float_lt(Float(0), c.total_liquidity)
    /\ float_lt(Float(0), c.trade_pct)
    /\ float_le(c.trade_pct, Float(100))
    /\ c.interval_seconds >= 1
    /\ 0 <= c.slippage_bps
    /\ c.slippage_bps <= 10000
    /\ float_le(Float(0), c.min_notional)

\* C37: constructing a SessionConfig returns exactly when its fields are within the
\* bounds, and raises otherwise.
C37_ConstructedIffWithinBounds ==
    call.fn = "SessionConfig" =>
        /\ call.outcome = "returned" => WithinBounds(call.config)
        /\ call.outcome = "raised" => ~WithinBounds(call.config)

----------------------------------------------------------------------------
(* C38 *)

\* the number of TradeRecords stored for user u
RecordCount(u) == Len(SelectSeq(db_trades, LAMBDA r : r.user_id = u))

\* C38: the persisted trades_executed of user u counts u's TradeRecords since u's last
\* start or reset: the save of a start or of a reset persists 0, and every other step
\* changes the persisted trades_executed by the number of records of u it appends.
C38_TradesMatchRecords ==
    [][\A u \in Users :
          IF CommandStep /\ (At(u, "start_session", "save") \/ At(u, "cmd_reset", "save"))
            THEN /\ get_session_state(u).trades_executed' = 0
                 /\ RecordCount(u)' = RecordCount(u)
            ELSE get_session_state(u).trades_executed' - get_session_state(u).trades_executed
                    = RecordCount(u)' - RecordCount(u)]_vars

----------------------------------------------------------------------------
(* C39 *)

\* C39: whenever the persisted state of user u is active, a worker thread of u is
\* alive: a worker that has ended has left active = false.
C39_ActiveMeansLiveWorker ==
    \A u \in Users :
        get_session_state(u).active => \E t \in ThreadsOf(u) : is_alive(t)

----------------------------------------------------------------------------
(* C40 *)

\* worker w has read the nonce for a transaction and has not sent it yet
NonceRead(w) == call.ops[w].stage \in {"approve_send", "send"}

\* worker w holds a transaction that is built, or sent and not yet mined
Built(w) == call.ops[w].stage \in {"approve_send", "approve_wait", "send", "wait"}

\* C40: two workers never hold transactions built with the same wallet nonce, and
\* while one worker stands between reading the nonce and sending its transaction no
\* other worker reads the nonce.
C40_NoncesNotShared ==
    /\ [](call.fn = "swaps" =>
            \A w1, w2 \in SwapWorkers :
                (w1 # w2 /\ Built(w1) /\ Built(w2))
                    => call.ops[w1].nonce # call.ops[w2].nonce)
    /\ [][call.fn = "swaps" =>
            \A w1, w2 \in SwapWorkers :
                (w1 # w2 /\ NonceRead(w1))
                    => ~(call.ops[w2].stage \in {"approve_build", "build"}
                         /\ call'.ops[w2].stage \in {"approve_send", "send"})]_vars
====
